---------------------------- MODULE Spec2Model ----------------------------
(***************************************************************************)
(* A model of clumsy's user manager (usermgrd) and of the daemons it       *)
(* talks to.  Every request handler is a coroutine: one action of the      *)
(* model runs a handler from one await to the next, so requests interleave *)
(* exactly at the suspension points of the code.                           *)
(***************************************************************************)
EXTENDS Integers, Sequences, FiniteSets, TLC

(***************************************************************************)
(* Bounds of the model.                                                    *)
(***************************************************************************)
\* the longest list of compensations the test handler dut pushes
MaxPush == 3
\* the number of candidates drawn for the allocator (100 in the code)
NumDraws == 2
\* the number of iterations of a consistency wait (60 in the code)
WaitIters == 2
\* the clock stops after MaxClock lifetimes of a token
MaxClock == 2
\* the requests the decorated function answers
MaxServed == 3

(***************************************************************************)
(* Configuration (read from SETTINGS_FILE).                                *)
(***************************************************************************)
MIN_UID == 1
MAX_UID == 3
MIN_GID == 3
MAX_GID == 5
\* mkhomedird.py: timedelta (seconds=60), the unit of the clock
TokenLifetime == 1
AUTHORIZATION_CREATE == <<"creator">>

UidRange == MIN_UID .. (MAX_UID - 1)
GidRange == MIN_GID .. (MAX_GID - 1)

\* the concurrent requests of the model
Requests == {"r1", "r2"}

\* Python's None: an identifier no candidate equals
None == -1

VARIABLES
  \* ---- per request
  pc,          \* where the handler stands (the await it is suspended at)
  kind,        \* the handler the request runs
  user,        \* the authenticated principal passed as user=
  form,        \* request.json
  uid,         \* the identifier yielded by findUnusedUser / findUnusedGroup
  conn,        \* the request's LDAP connection: "none", "open", "closed"
  tries,       \* the loop counter i of the consistency wait
  rollback,    \* the AsyncExitStack handed to the handler
  exc,         \* the exception travelling through the exit stack
  thrown,      \* history: the exception the handler itself raised
  raised,      \* the exception that left the wrapped handler
  resp,        \* the HTTP response
  pushed,      \* history: every compensation pushed, in push order
  executed,    \* history: every compensation run, in run order
  outcomes,    \* history: what each compensation raised, in run order
  calls,       \* history: every call to a collaborator, in call order
  mkdirs,      \* history: the directories the homedir service made for it
  token,       \* deldata['token'] of a delete-user request
  \* ---- process-wide state of usermgrd
  reservedUsers,
  reservedGroups,
  \* ---- the collaborators
  ldapPeople,  \* entries below LDAP_BASE_PEOPLE
  ldapGroup,   \* entries below LDAP_BASE_GROUP
  passwd,      \* what the name service resolves (pwd), caches included
  group,       \* what the name service resolves (grp), caches included
  principals,  \* the principals of the KDC
  dirs,        \* the directories of the homedir service
  deleteToken, \* the tokens the homedir service has issued
  now,         \* the clock, in units of the lifetime of a token
  \* ---- per request, the handlers of group membership
  modgroup,    \* the group the request names, as the name service resolved it
  moduser,     \* the user the request names, as the name service resolved it
  results,     \* the group entry the handler holds after getLdapGroup
  gcFound,     \* the groups garbageCollectGroups found without a member
  \* ---- the homedir service seen by any client of its socket
  homed,       \* the last DELETE /user/<user> of such a client and its answer
  \* ---- the SPNEGO decorator
  gss,         \* conn_info.ctx.gss of each connection
  served,      \* history: the answers of the decorated function, in order
  handled,     \* history: the user= of each call of the wrapped handler
  \* ---- the host and the orphan reaper
  proc,        \* /proc: the real uid of each process, None without one
  listing,     \* the entries of /proc the scan has still to visit
  signalled,   \* history: every os.kill of the reaper
  \* ---- the homedir service: POST /user/<user>
  running,     \* mkhomedird.py: the users whose home is being created
  post,        \* the POST requests of the clients of its socket
  \* ---- history
  prior,       \* the requests that had ended when the request began
  kadmin,      \* the stdin of the kadmin process when addPrincipal was left
  world0       \* the directory, the KDC and the directories at the start

reqVars == <<pc, kind, user, form, uid, conn, tries, rollback, exc, thrown,
             raised, resp, pushed, executed, outcomes, calls, mkdirs,
             token>>
envVars == <<reservedUsers, reservedGroups, ldapPeople, ldapGroup, passwd,
             group, principals, dirs, deleteToken, now>>
memberVars == <<modgroup, moduser, results, gcFound>>
histVars == <<prior, world0, kadmin>>
authVars == <<gss, served, handled>>
hostVars == <<proc, listing, signalled>>
homeVars == <<running, post>>
svcVars == <<homed, authVars, hostVars, homeVars>>
extVars == <<memberVars, histVars, svcVars>>
vars == <<reqVars, envVars, extVars>>

(***************************************************************************)
(* Sequences.                                                              *)
(***************************************************************************)
Last(s) == s[Len(s)]
Front(s) == SubSeq(s, 1, Len(s) - 1)
Reverse(s) == [i \in 1..Len(s) |-> s[Len(s) + 1 - i]]
Range(s) == {s[i] : i \in 1..Len(s)}

(***************************************************************************)
(* Exceptions and the error handler of the application.                    *)
(***************************************************************************)
NoExc == [type |-> "none", status |-> "none"]
ServerError(s) == [type |-> "ServerError", status |-> s]
Forbidden(s) == [type |-> "Forbidden", status |-> s]
NotFound(s) == [type |-> "NotFound", status |-> s]
\* an exception that is no SanicException
Other(t) == [type |-> t, status |-> "none"]

NoResp == [code |-> 0, status |-> "none"]

StatusCode(e) ==
  CASE e.type = "ServerError" -> 500
    [] e.type = "Forbidden" -> 403
    [] e.type = "NotFound" -> 404
    [] OTHER -> 0

\* cli.py: a SanicException answers its own body and status code, any other
\* Exception answers 500 bug; CancelledError is no Exception and nothing is
\* answered
handleErrors(e) ==
  IF e.type \in {"ServerError", "Forbidden", "NotFound"}
  THEN [code |-> StatusCode(e), status |-> e.status]
  ELSE IF e.type = "CancelledError" THEN NoResp
  ELSE [code |-> 500, status |-> "bug"]

(***************************************************************************)
(* Compensations: the callbacks of the exit stack.                         *)
(***************************************************************************)
\* fn: the callable, arg: its argument, async: pushed by
\* push_async_callback (TRUE) or by callback (FALSE)
Callback(fn, arg, async) == [fn |-> fn, arg |-> arg, async |-> async]

\* the callables the test handler pushes: step and syncStep record their
\* argument; failStep and failSyncStep record it and raise
DutFns == {"step", "syncStep", "failStep", "failSyncStep"}
DutAsync(fn) == fn \in {"step", "failStep"}
DutRaises(fn) == fn \in {"failStep", "failSyncStep"}

(***************************************************************************)
(* Names.  A string is a sequence of tokens; "@" is a token of its own.    *)
(***************************************************************************)
\* uid.py: the identifier written in the quint alphabet, one word each
uintToQuint(n) == <<"babab", "babad", "babaf", "babag", "babah", "babaj">>[n + 1]

\* f'user-{uintToQuint (uid, 2)}'
UserName(u) == <<"user-", uintToQuint(u)>>
\* f'group-{uintToQuint(gid, 2)}'
GroupName(g) == <<"group-", uintToQuint(g)>>

\* the characters of a name: the literal of the format string letter by
\* letter, and the letters of the word that stands for the quint
RECURSIVE Chars(_)
Chars(name) ==
  LET quint(w) == [i \in 1..5 |-> IF i \in {2, 4} THEN "a"
                                  ELSE IF i < 5 THEN "b"
                                  ELSE <<"b", "d", "f", "g", "h", "j">>[
                                         CHOOSE n \in 1..6 : uintToQuint(n - 1) = w]]
      spell(t) == CASE t = "user-" -> <<"u", "s", "e", "r", "-">>
                    [] t = "group-" -> <<"g", "r", "o", "u", "p", "-">>
                    [] OTHER -> quint(t)
  IN  IF name = <<>> THEN <<>> ELSE spell(Head(name)) \o Chars(Tail(name))

\* user.split ('@', 1)[0]
LocalPart(p) ==
  LET at == {i \in 1..Len(p) : p[i] = "@"}
  IN  IF at = {} THEN p
      ELSE SubSeq(p, 1, (CHOOSE i \in at : \A j \in at : i <= j) - 1)

\* the principals a request may be authenticated as
Principals ==
  { AUTHORIZATION_CREATE \o <<"@", "REALM">>,
    <<"other", "@", "creator">>,
    <<"root", "@", "REALM">>,
    <<"ghost", "@", "REALM">> }
  \cup { UserName(u) \o <<"@", "REALM">> : u \in UidRange }
  \cup { UserName(u) : u \in UidRange }

\* the keys of UserInfo
UserInfoFields ==
  {"firstName", "lastName", "username", "orcid", "authorization", "email"}

\* the bodies a create-user request may carry: the keys that are present
Forms ==
  { UserInfoFields,
    UserInfoFields \ {"email"},
    UserInfoFields \cup {"unknown"},
    \* neither a user name nor a first and a last name
    {"email", "orcid"} }

(***************************************************************************)
(* The directory, the name service, the KDC and the homedir service.       *)
(***************************************************************************)
\* the posixAccount entry addUser writes: uid=<user>, uidNumber, gidNumber
Account(u) == [name |-> UserName(u), uid |-> u, gid |-> u]
\* the posixGroup entry addUser writes: cn=<user>, gidNumber, memberUid
PrimaryGroup(u) == [name |-> UserName(u), gid |-> u, memberUid |-> {UserName(u)}]
\* the posixGroup entry addGroup writes: cn=<group>, gidNumber, memberUid
NewGroup(g, owner) == [name |-> GroupName(g), gid |-> g, memberUid |-> {owner}]

\* accounts and groups of the host that are not in the directory
SystemUsers == {[name |-> <<"root">>, uid |-> 0, gid |-> 0]}
SystemGroups == {[name |-> <<"root">>, gid |-> 0, memberUid |-> {}]}

\* what the name service resolves once no cache is stale
FreshPasswd == SystemUsers \cup ldapPeople
FreshGroup == SystemGroups \cup ldapGroup

\* nss.py, getUser: the entries a lookup by name or by uid may answer in
\* the view pw; the empty set is KeyError
getUserByName(pw, n) == {e \in pw : e.name = n}
getUserByUid(pw, u) == {e \in pw : e.uid = u}
\* grp.getgrnam, grp.getgrgid
getgrnam(gr, n) == {e \in gr : e.name = n}
getgrgid(gr, g) == {e \in gr : e.gid = g}

\* nscdflushd.py, flushUserCache: the answer of the flush service, from the
\* exit codes of sss_cache and of nscd
nscdflushd(sssRet, nscdRet) ==
  IF sssRet # 0 THEN [code |-> 500, status |-> "sss_failed"]
  ELSE IF nscdRet # 0 THEN [code |-> 500, status |-> "nscd_failed"]
  ELSE [code |-> 200, status |-> "ok"]

\* usermgrd.py, flushUserCache: the exception it raises, if any, given
\* whether the socket answered and what the flush service answered
flushUserCache(transportOk, deldata) ==
  IF ~transportOk THEN ServerError("nscdflushd_connect")
  ELSE IF deldata.status # "ok" THEN ServerError("flush_failed")
  ELSE NoExc

\* the ways one flush may go: the exception raised and the views of the
\* name service afterwards (a flush drops the caches; whether the next
\* lookup sees the directory's latest state is up to the directory)
FlushOutcomes ==
  { [exc |-> flushUserCache(t, nscdflushd(s, n)),
     passwd |-> IF t /\ s = 0 /\ n = 0 /\ fresh THEN FreshPasswd ELSE passwd,
     group |-> IF t /\ s = 0 /\ n = 0 /\ fresh THEN FreshGroup ELSE group]
    : t \in BOOLEAN, s \in {0, 1}, n \in {0, 1}, fresh \in BOOLEAN }

\* config.DIRECTORIES of the homedir service, in the order of the mapping:
\* a home directory copied from a skeleton, and a plain second directory
DIRECTORIES ==
  << [path |-> "home", create |-> "skel", delete |-> TRUE],
     [path |-> "scratch", create |-> "yes", delete |-> TRUE] >>

\* mkhomedird.py, touchHome, the loop over config.DIRECTORIES from entry i
\* on: mkdir and chown, FileExistsError answers homedir_exists, a skeleton
\* that cannot be copied answers copy_skeleton_failed
RECURSIVE touchDirs(_, _, _, _)
touchDirs(i, name, ds, copyOk) ==
  IF i > Len(DIRECTORIES)
  THEN [code |-> 201, status |-> "ok", dirs |-> ds]
  ELSE LET d == DIRECTORIES[i] IN
       IF d.create = "no" THEN touchDirs(i + 1, name, ds, copyOk)
       ELSE IF <<d.path, name>> \in ds
       THEN [code |-> 409, status |-> "homedir_exists", dirs |-> ds]
       ELSE IF d.create = "skel" /\ ~copyOk
       THEN [code |-> 500, status |-> "copy_skeleton_failed",
             dirs |-> ds \cup {<<d.path, name>>}]
       ELSE touchDirs(i + 1, name, ds \cup {<<d.path, name>>}, copyOk)

\* mkhomedird.py, touchHome: POST /user/<user>; copyOk is whether rsync
\* succeeds
touchHome(name, copyOk) ==
  IF getUserByName(passwd, name) = {}
  THEN [code |-> 404, status |-> "user_not_found", dirs |-> dirs]
  ELSE touchDirs(1, name, dirs, copyOk)

(***************************************************************************)
(* What running one callback of the exit stack does: the exception it      *)
(* raises (NoExc: none) and the state of the collaborators afterwards.     *)
(***************************************************************************)
Outcome(e, people, grps, pw, gr, princ) ==
  [exc |-> e, ldapPeople |-> people, ldapGroup |-> grps, passwd |-> pw,
   group |-> gr, principals |-> princ]

\* the callback raises e and changes nothing
Fails(e) == Outcome(e, ldapPeople, ldapGroup, passwd, group, principals)

\* bonsai, LDAPEntry.delete on the connection the entry was added through:
\* a closed connection refuses, a missing entry is NoSuchObjectError, the
\* server may fail
EntryDeleteOutcomes(r, base, name) ==
  IF conn[r] # "open"
  THEN {Fails(Other("ClosedConnection"))}
  ELSE {Fails(Other("LDAPError"))}
       \cup
       ( IF base = "people"
         THEN IF \E e \in ldapPeople : e.name = name
              THEN {Outcome(NoExc, {e \in ldapPeople : e.name # name}, ldapGroup,
                            passwd, group, principals)}
              ELSE {Fails(Other("NoSuchObjectError"))}
         ELSE IF \E e \in ldapGroup : e.name = name
              THEN {Outcome(NoExc, ldapPeople, {e \in ldapGroup : e.name # name},
                            passwd, group, principals)}
              ELSE {Fails(Other("NoSuchObjectError"))} )

\* kadm.py, KAdm.deletePrincipal: kadmin's exit code decides
deletePrincipalOutcomes(name) ==
  {Fails(Other("KAdmException"))}
  \cup
  ( IF name \in principals
    THEN {Outcome(NoExc, ldapPeople, ldapGroup, passwd, group,
                  principals \ {name})}
    ELSE {} )

CallbackOutcomes(r, cb) ==
  CASE cb.fn \in DutFns ->
         {Fails(IF DutRaises(cb.fn) THEN Other("StepError") ELSE NoExc)}
    [] cb.fn = "flushUserCache" ->
         { Outcome(o.exc, ldapPeople, ldapGroup, o.passwd, o.group, principals)
           : o \in FlushOutcomes }
    [] cb.fn = "people.delete" -> EntryDeleteOutcomes(r, "people", cb.arg)
    [] cb.fn = "group.delete" -> EntryDeleteOutcomes(r, "group", cb.arg)
    [] cb.fn = "kadm.deletePrincipal" -> deletePrincipalOutcomes(cb.arg)

(***************************************************************************)
(* withRollback: the exit stack.                                           *)
(***************************************************************************)
\* a wrapper that forgets stack.pop_all (): everything stays on the stack
pop_all_Forgotten(stack) == stack

\* stack.pop_all (): what is left on the stack
pop_all(stack) == <<>>

\* an exception leaves the handler: with callbacks on the stack the exit
\* stack starts to unwind, with none the exception leaves wrapped() at once
RaiseIn(r, e) ==
  /\ thrown' = [thrown EXCEPT ![r] = e]
  /\ IF rollback[r] = <<>>
     THEN /\ pc' = [pc EXCEPT ![r] = "done"]
          /\ raised' = [raised EXCEPT ![r] = e]
          /\ resp' = [resp EXCEPT ![r] = handleErrors(e)]
          /\ exc' = exc
     ELSE /\ pc' = [pc EXCEPT ![r] = "unwind"]
          /\ exc' = [exc EXCEPT ![r] = e]
          /\ UNCHANGED <<raised, resp>>

\* the handler returns rsp: stack.pop_all (), then the async with is left
\* without an exception and runs what is still on the stack
ReturnFrom(r, rsp) ==
  /\ rollback' = [rollback EXCEPT ![r] = pop_all(@)]
  /\ resp' = [resp EXCEPT ![r] = rsp]
  /\ pc' = [pc EXCEPT ![r] = IF pop_all(rollback[r]) = <<>> THEN "done" ELSE "unwind"]
  /\ UNCHANGED <<exc, thrown, raised>>

\* an exit stack that gives up at the first callback that raises: the
\* older callbacks are dropped and the exception leaves wrapped() at once
Unwind_StopAtFailure(r) ==
  /\ pc[r] = "unwind"
  /\ rollback[r] # <<>>
  /\ LET cb == Last(rollback[r]) IN
     \E o \in CallbackOutcomes(r, cb) :
       LET e == IF o.exc # NoExc THEN o.exc ELSE exc[r]
           last == Len(rollback[r]) = 1 \/ o.exc # NoExc
       IN
       /\ rollback' = [rollback EXCEPT ![r] = IF last THEN <<>> ELSE Front(@)]
       /\ executed' = [executed EXCEPT ![r] = Append(@, cb)]
       /\ outcomes' = [outcomes EXCEPT ![r] = Append(@, o.exc)]
       /\ exc' = [exc EXCEPT ![r] = e]
       /\ IF last
          THEN /\ pc' = [pc EXCEPT ![r] = "done"]
               /\ raised' = [raised EXCEPT ![r] = e]
               /\ resp' = [resp EXCEPT ![r] = IF e = NoExc THEN @ ELSE handleErrors(e)]
          ELSE UNCHANGED <<pc, raised, resp>>
       /\ ldapPeople' = o.ldapPeople
       /\ ldapGroup' = o.ldapGroup
       /\ passwd' = o.passwd
       /\ group' = o.group
       /\ principals' = o.principals
  /\ UNCHANGED <<kind, user, form, uid, conn, tries, thrown, pushed, calls, mkdirs>>
  /\ UNCHANGED <<reservedUsers, reservedGroups, dirs>>
  /\ UNCHANGED <<token, deleteToken, now>>
  /\ UNCHANGED extVars

\* AsyncExitStack.__aexit__: pop the newest callback and run it; an
\* exception it raises replaces the one travelling; after the oldest
\* callback the exception that is left, if any, leaves wrapped()
Unwind(r) ==
  /\ pc[r] = "unwind"
  /\ rollback[r] # <<>>
  /\ LET cb == Last(rollback[r]) IN
     \E o \in CallbackOutcomes(r, cb) :
       LET e == IF o.exc # NoExc THEN o.exc ELSE exc[r] IN
       /\ rollback' = [rollback EXCEPT ![r] = Front(@)]
       /\ executed' = [executed EXCEPT ![r] = Append(@, cb)]
       /\ outcomes' = [outcomes EXCEPT ![r] = Append(@, o.exc)]
       /\ exc' = [exc EXCEPT ![r] = e]
       /\ IF Len(rollback[r]) = 1
          THEN /\ pc' = [pc EXCEPT ![r] = "done"]
               /\ raised' = [raised EXCEPT ![r] = e]
               /\ resp' = [resp EXCEPT ![r] = IF e = NoExc THEN @ ELSE handleErrors(e)]
          ELSE UNCHANGED <<pc, raised, resp>>
       /\ ldapPeople' = o.ldapPeople
       /\ ldapGroup' = o.ldapGroup
       /\ passwd' = o.passwd
       /\ group' = o.group
       /\ principals' = o.principals
  /\ UNCHANGED <<kind, user, form, uid, conn, tries, thrown, pushed, calls, mkdirs>>
  /\ UNCHANGED <<reservedUsers, reservedGroups, dirs>>
  /\ UNCHANGED <<token, deleteToken, now>>
  /\ UNCHANGED extVars

(***************************************************************************)
(* test_usermgrd.py, test_rollback: a handler that pushes compensations    *)
(* and then returns or raises.                                             *)
(***************************************************************************)
DutStart(r) ==
  /\ pc[r] = "idle"
  /\ pc' = [pc EXCEPT ![r] = "dut"]
  /\ kind' = [kind EXCEPT ![r] = "dut"]
  /\ UNCHANGED <<user, form, uid, conn, tries, rollback, exc, thrown, raised, resp,
                 pushed, executed, outcomes, calls, mkdirs>>
  /\ UNCHANGED envVars
  /\ UNCHANGED token
  /\ UNCHANGED extVars

\* rollback.push_async_callback (step, n) or rollback.callback (syncStep, n)
DutPush(r) ==
  /\ pc[r] = "dut"
  /\ Len(pushed[r]) < MaxPush
  /\ \E fn \in DutFns :
       LET cb == Callback(fn, Len(pushed[r]) + 1, DutAsync(fn)) IN
       /\ rollback' = [rollback EXCEPT ![r] = Append(@, cb)]
       /\ pushed' = [pushed EXCEPT ![r] = Append(@, cb)]
  /\ UNCHANGED <<pc, kind, user, form, uid, conn, tries, exc, thrown, raised, resp,
                 executed, outcomes, calls, mkdirs>>
  /\ UNCHANGED envVars
  /\ UNCHANGED token
  /\ UNCHANGED extVars

\* raise Exception ()
DutRaise(r) ==
  /\ pc[r] = "dut"
  /\ RaiseIn(r, Other("Exception"))
  /\ UNCHANGED <<kind, user, form, uid, conn, tries, rollback, pushed, executed,
                 outcomes, calls, mkdirs>>
  /\ UNCHANGED envVars
  /\ UNCHANGED token
  /\ UNCHANGED extVars

\* the handler returns
DutReturn(r) ==
  /\ pc[r] = "dut"
  /\ ReturnFrom(r, [code |-> 200, status |-> "ok"])
  /\ UNCHANGED <<kind, user, form, uid, conn, tries, pushed, executed, outcomes,
                 calls, mkdirs>>
  /\ UNCHANGED envVars
  /\ UNCHANGED token
  /\ UNCHANGED extVars

(***************************************************************************)
(* The identifier allocator.                                               *)
(***************************************************************************)
\* the loop of the allocator: the first candidate of it at one of the
\* positions good, None when there is none
FirstUnused(it, good) ==
  IF good = {} THEN None
  ELSE it[CHOOSE i \in good : \A j \in good : i <= j]

\* an allocator that does not look at the reservations
findUnusedUser_IgnoreReserved(it) ==
  FirstUnused(it, {i \in 1..Len(it) : getUserByUid(passwd, it[i]) = {}})

\* findUnusedUser: the first candidate that is not reserved and that the
\* name service does not resolve
findUnusedUser(it) ==
  FirstUnused(it, {i \in 1..Len(it) : /\ it[i] \notin reservedUsers
                                      /\ getUserByUid(passwd, it[i]) = {}})

\* findUnusedGroup: the same against the group database
findUnusedGroup(it) ==
  FirstUnused(it, {i \in 1..Len(it) : /\ it[i] \notin reservedGroups
                                      /\ getgrgid(group, it[i]) = {}})

\* reservedUsers.add (ret), reservedGroups.add (ret)
Reserve(reserved, ret) == reserved \cup {ret}

\* a finally clause that removes nothing
Release_Forgotten(reserved, ret) == reserved

\* the finally clause of the allocator: reservedUsers.remove (ret),
\* reservedGroups.remove (ret)
Release(reserved, ret) == reserved \ {ret}

\* [random.randrange (lo, hi) for i in range (NumDraws)]
Draws(lo, hi) == [1..NumDraws -> lo .. (hi - 1)]

\* the positions at which a handler stands inside its with block
InUserScope(r) == pc[r] \in {"connect", "add_user", "add_group"}
InGroupScope(r) == pc[r] \in {"g_connect", "g_add"}

\* the requests that have been answered
Ended == {q \in Requests : pc[q] = "done"}

\* one call to a collaborator and how it ended, for the history
Call(op, res) == [op |-> op, res |-> res]
Log(r, c) == calls' = [calls EXCEPT ![r] = Append(@, c)]
Log2(r, c, d) == calls' = [calls EXCEPT ![r] = Append(Append(@, c), d)]

(***************************************************************************)
(* POST /user: addUser.                                                    *)
(***************************************************************************)
\* a check that lets every principal create accounts
mayCreate_Anyone(p) == TRUE

\* line 143: the local part of the principal is AUTHORIZATION_CREATE
mayCreate(p) == LocalPart(p) = AUTHORIZATION_CREATE

\* line 158: the login name of the new account (the handler rebinds user)
Login(r) == UserName(uid[r])

\* lines 140-160: the authorization check, the body, the allocation of a
\* uid; the handler then awaits ldapclient.connect
AddUserStart(r) ==
  /\ pc[r] = "idle"
  /\ \E p \in Principals, f \in Forms, it \in Draws(MIN_UID, MAX_UID) :
       /\ kind' = [kind EXCEPT ![r] = "addUser"]
       /\ user' = [user EXCEPT ![r] = p]
       /\ form' = [form EXCEPT ![r] = f]
       /\ IF ~mayCreate(p)
          THEN /\ RaiseIn(r, Forbidden("Forbidden"))
               /\ UNCHANGED <<uid, reservedUsers>>
          ELSE IF ~(f \subseteq UserInfoFields)
          THEN \* UserInfo (**form) got an unexpected keyword
               /\ RaiseIn(r, Other("TypeError"))
               /\ UNCHANGED <<uid, reservedUsers>>
          ELSE LET u == findUnusedUser(it) IN
               IF u = None
               THEN \* reserved and, on the way out, released again
                    /\ reservedUsers' = Release(Reserve(reservedUsers, u), u)
                    /\ RaiseIn(r, ServerError("uid"))
                    /\ UNCHANGED uid
               ELSE /\ reservedUsers' = Reserve(reservedUsers, u)
                    /\ uid' = [uid EXCEPT ![r] = u]
                    /\ pc' = [pc EXCEPT ![r] = "connect"]
                    /\ UNCHANGED <<exc, thrown, raised, resp>>
  /\ UNCHANGED <<conn, tries, rollback, pushed, executed, outcomes, calls, mkdirs>>
  /\ UNCHANGED <<reservedGroups, ldapPeople, ldapGroup, passwd, group,
                 principals, dirs>>
  /\ UNCHANGED <<token, deleteToken, now>>
  /\ UNCHANGED extVars

\* lines 160-183: the connection is opened and the entry is built;
\* keepAscii raises TypeError on a field the body did not carry
AddUserConnect(r) ==
  /\ pc[r] = "connect"
  /\ \E ok \in BOOLEAN :
       IF ~ok
       THEN /\ Log(r, Call("ldap.connect", "error"))
            /\ reservedUsers' = Release(reservedUsers, uid[r])
            /\ RaiseIn(r, Other("LDAPError"))
            /\ UNCHANGED conn
       ELSE /\ Log(r, Call("ldap.connect", "ok"))
            /\ conn' = [conn EXCEPT ![r] = "open"]
            /\ IF {"email", "username"} \subseteq form[r]
               THEN /\ pc' = [pc EXCEPT ![r] = "add_user"]
                    /\ UNCHANGED <<exc, thrown, raised, resp, reservedUsers>>
               ELSE /\ reservedUsers' = Release(reservedUsers, uid[r])
                    /\ RaiseIn(r, Other("TypeError"))
  /\ UNCHANGED <<kind, user, form, uid, tries, rollback, pushed, executed,
                 outcomes, mkdirs>>
  /\ UNCHANGED <<reservedGroups, ldapPeople, ldapGroup, passwd, group,
                 principals, dirs>>
  /\ UNCHANGED <<token, deleteToken, now>>
  /\ UNCHANGED extVars

\* conn.add (o): AlreadyExists when the server holds an entry of that
\* name, LDAPError when the server fails
AddResult(serverOk, exists) ==
  IF ~serverOk THEN "error" ELSE IF exists THEN "exists" ELSE "ok"

\* a handler that pushes the deletion of the entry first and the flush
\* second
AddUserEntry_FlushPushedLast(r) ==
  /\ pc[r] = "add_user"
  /\ \E serverOk \in BOOLEAN :
       LET res == AddResult(serverOk, \E e \in ldapPeople : e.name = Login(r))
           cbs == << Callback("people.delete", Login(r), TRUE),
                     Callback("flushUserCache", None, TRUE) >>
       IN  /\ Log(r, Call("ldap.add_user", res))
           /\ IF res = "ok"
              THEN /\ ldapPeople' = ldapPeople \cup {Account(uid[r])}
                   /\ rollback' = [rollback EXCEPT ![r] = @ \o cbs]
                   /\ pushed' = [pushed EXCEPT ![r] = @ \o cbs]
                   /\ pc' = [pc EXCEPT ![r] = "add_group"]
                   /\ UNCHANGED <<exc, thrown, raised, resp, reservedUsers>>
              ELSE /\ reservedUsers' = Release(reservedUsers, uid[r])
                   /\ RaiseIn(r, IF res = "exists" THEN ServerError("user_exists")
                                 ELSE Other("LDAPError"))
                   /\ UNCHANGED <<ldapPeople, rollback, pushed>>
  /\ UNCHANGED <<kind, user, form, uid, conn, tries, executed, outcomes, mkdirs>>
  /\ UNCHANGED <<reservedGroups, ldapGroup, passwd, group, principals, dirs>>
  /\ UNCHANGED <<token, deleteToken, now>>
  /\ UNCHANGED extVars

\* lines 184-192: conn.add (o) of the user entry; on success the flush and
\* the deletion of the entry are pushed
AddUserEntry(r) ==
  /\ pc[r] = "add_user"
  /\ \E serverOk \in BOOLEAN :
       LET res == AddResult(serverOk, \E e \in ldapPeople : e.name = Login(r))
           cbs == << Callback("flushUserCache", None, TRUE),
                     Callback("people.delete", Login(r), TRUE) >>
       IN  /\ Log(r, Call("ldap.add_user", res))
           /\ IF res = "ok"
              THEN /\ ldapPeople' = ldapPeople \cup {Account(uid[r])}
                   /\ rollback' = [rollback EXCEPT ![r] = @ \o cbs]
                   /\ pushed' = [pushed EXCEPT ![r] = @ \o cbs]
                   /\ pc' = [pc EXCEPT ![r] = "add_group"]
                   /\ UNCHANGED <<exc, thrown, raised, resp, reservedUsers>>
              ELSE /\ reservedUsers' = Release(reservedUsers, uid[r])
                   /\ RaiseIn(r, IF res = "exists" THEN ServerError("user_exists")
                                 ELSE Other("LDAPError"))
                   /\ UNCHANGED <<ldapPeople, rollback, pushed>>
  /\ UNCHANGED <<kind, user, form, uid, conn, tries, executed, outcomes, mkdirs>>
  /\ UNCHANGED <<reservedGroups, ldapGroup, passwd, group, principals, dirs>>
  /\ UNCHANGED <<token, deleteToken, now>>
  /\ UNCHANGED extVars

\* a handler that pushes the deletion of the primary group before it knows
\* whether the entry was added
AddUserGroup_PushBeforeAdd(r) ==
  /\ pc[r] = "add_group"
  /\ \E serverOk \in BOOLEAN :
       LET res == AddResult(serverOk, \E e \in ldapGroup : e.name = Login(r))
           cbs == << Callback("group.delete", Login(r), TRUE) >>
       IN  /\ reservedUsers' = Release(reservedUsers, uid[r])
           /\ rollback' = [rollback EXCEPT ![r] = @ \o cbs]
           /\ pushed' = [pushed EXCEPT ![r] = @ \o cbs]
           /\ IF res = "ok"
              THEN /\ Log2(r, Call("ldap.add_group", "ok"), Call("ldap.close", "ok"))
                   /\ ldapGroup' = ldapGroup \cup {PrimaryGroup(uid[r])}
                   /\ conn' = [conn EXCEPT ![r] = "closed"]
                   /\ tries' = [tries EXCEPT ![r] = 0]
                   /\ pc' = [pc EXCEPT ![r] = "wait_flush"]
                   /\ UNCHANGED <<exc, thrown, raised, resp>>
              ELSE /\ Log(r, Call("ldap.add_group", res))
                   /\ thrown' = [thrown EXCEPT ![r] =
                                   IF res = "exists" THEN ServerError("group_exists")
                                   ELSE Other("LDAPError")]
                   /\ exc' = [exc EXCEPT ![r] = thrown'[r]]
                   /\ pc' = [pc EXCEPT ![r] = "unwind"]
                   /\ UNCHANGED <<raised, resp, ldapGroup, conn, tries>>
  /\ UNCHANGED <<kind, user, form, uid, executed, outcomes, mkdirs>>
  /\ UNCHANGED <<reservedGroups, ldapPeople, passwd, group, principals, dirs>>
  /\ UNCHANGED <<token, deleteToken, now>>
  /\ UNCHANGED extVars

\* lines 194-212: conn.add (o) of the primary group; on success its
\* deletion is pushed, the connection is closed, the allocator's scope is
\* left and the consistency wait begins with its first flush
AddUserGroup(r) ==
  /\ pc[r] = "add_group"
  /\ \E serverOk \in BOOLEAN :
       LET res == AddResult(serverOk, \E e \in ldapGroup : e.name = Login(r))
           cbs == << Callback("group.delete", Login(r), TRUE) >>
       IN  /\ reservedUsers' = Release(reservedUsers, uid[r])
           /\ IF res = "ok"
              THEN /\ Log2(r, Call("ldap.add_group", "ok"), Call("ldap.close", "ok"))
                   /\ ldapGroup' = ldapGroup \cup {PrimaryGroup(uid[r])}
                   /\ rollback' = [rollback EXCEPT ![r] = @ \o cbs]
                   /\ pushed' = [pushed EXCEPT ![r] = @ \o cbs]
                   /\ conn' = [conn EXCEPT ![r] = "closed"]
                   /\ tries' = [tries EXCEPT ![r] = 0]
                   /\ pc' = [pc EXCEPT ![r] = "wait_flush"]
                   /\ UNCHANGED <<exc, thrown, raised, resp>>
              ELSE /\ Log(r, Call("ldap.add_group", res))
                   /\ RaiseIn(r, IF res = "exists" THEN ServerError("group_exists")
                                 ELSE Other("LDAPError"))
                   /\ UNCHANGED <<ldapGroup, rollback, pushed, conn, tries>>
  /\ UNCHANGED <<kind, user, form, uid, executed, outcomes, mkdirs>>
  /\ UNCHANGED <<reservedGroups, ldapPeople, passwd, group, principals, dirs>>
  /\ UNCHANGED <<token, deleteToken, now>>
  /\ UNCHANGED extVars

\* lines 214-224: what the two lookups of the consistency wait come to:
\* KeyError when one of them does not resolve, else whether they agree
CheckResolved(resByName, resById) ==
  IF resByName = {} \/ resById = {} THEN {"KeyError"}
  ELSE {IF a = b THEN "ok" ELSE "mismatch" : a \in resByName, b \in resById}

\* lines 211-224, one iteration of the consistency wait up to its sleep:
\* flush, then resolve the account by name and by uid
AddUserWaitFlush(r) ==
  /\ pc[r] = "wait_flush"
  /\ \E o \in FlushOutcomes :
       /\ passwd' = o.passwd
       /\ group' = o.group
       /\ IF o.exc # NoExc
          THEN /\ Log(r, Call("flush", o.exc.status))
               /\ RaiseIn(r, o.exc)
          ELSE \E v \in CheckResolved(getUserByName(o.passwd, Login(r)),
                                      getUserByUid(o.passwd, uid[r])) :
                 /\ Log2(r, Call("flush", "ok"), Call("getUser", v))
                 /\ CASE v = "KeyError" ->
                           /\ pc' = [pc EXCEPT ![r] = "wait_sleep"]
                           /\ UNCHANGED <<exc, thrown, raised, resp>>
                      [] v = "mismatch" ->
                           RaiseIn(r, ServerError("user_mismatch"))
                      [] v = "ok" ->
                           /\ pc' = [pc EXCEPT ![r] = "kerberos"]
                           /\ UNCHANGED <<exc, thrown, raised, resp>>
  /\ UNCHANGED <<kind, user, form, uid, conn, tries, rollback, pushed, executed,
                 outcomes, mkdirs>>
  /\ UNCHANGED <<reservedUsers, reservedGroups, ldapPeople, ldapGroup,
                 principals, dirs>>
  /\ UNCHANGED <<token, deleteToken, now>>
  /\ UNCHANGED extVars

\* a wait that goes on to Kerberos when its last iteration did not resolve
AddUserWaitSleep_NoCheck(r) ==
  /\ pc[r] = "wait_sleep"
  /\ tries' = [tries EXCEPT ![r] = @ + 1]
  /\ pc' = [pc EXCEPT ![r] = IF tries[r] + 1 < WaitIters THEN "wait_flush"
                             ELSE "kerberos"]
  /\ UNCHANGED <<kind, user, form, uid, conn, rollback, exc, thrown, raised, resp,
                 pushed, executed, outcomes, calls, mkdirs>>
  /\ UNCHANGED envVars
  /\ UNCHANGED token
  /\ UNCHANGED extVars

\* lines 224-227: after asyncio.sleep (1) the next iteration, or, after the
\* last one, user_add_failed
AddUserWaitSleep(r) ==
  /\ pc[r] = "wait_sleep"
  /\ tries' = [tries EXCEPT ![r] = @ + 1]
  /\ IF tries[r] + 1 < WaitIters
     THEN /\ pc' = [pc EXCEPT ![r] = "wait_flush"]
          /\ UNCHANGED <<exc, thrown, raised, resp>>
     ELSE RaiseIn(r, ServerError("user_add_failed"))
  /\ UNCHANGED <<kind, user, form, uid, conn, rollback, pushed, executed,
                 outcomes, calls, mkdirs>>
  /\ UNCHANGED envVars
  /\ UNCHANGED token
  /\ UNCHANGED extVars

\* kadm.py, KAdm.addPrincipal: what kadmin writes is read three times and
\* each read is asserted (the two prompts, then the empty line); only then
\* is stdin closed and the exit code awaited, which raises KAdmException
\* unless it is 0
addPrincipal(bufs, ret) ==
  LET dialogue == <<"Enter password for principal ",
                    "Re-enter password for principal ", "newline">>
  IN  IF \E i \in 1..3 : bufs[i] # dialogue[i]
      THEN [exc |-> "AssertionError", stdin |-> "open"]
      ELSE [exc |-> IF ret # 0 THEN "KAdmException" ELSE "ok", stdin |-> "closed"]

\* lines 229-236: kadm.addPrincipal; a KAdmException becomes
\* kerberos_failed, a failed assertion of the dialogue is not caught;
\* kadmin exits with an error when the principal exists
AddUserKerberos(r) ==
  /\ pc[r] = "kerberos"
  /\ \E b1 \in {"Enter password for principal ", "other"},
        b2 \in {"Re-enter password for principal ", "other"},
        b3 \in {"newline", "other"}, ret \in {0, 1} :
       LET left == addPrincipal(<<b1, b2, b3>>, ret)
           out == left.exc
           res == IF out = "ok" /\ Login(r) \in principals THEN "KAdmException"
                  ELSE out
           cbs == << Callback("kadm.deletePrincipal", Login(r), TRUE) >>
       IN  /\ Log(r, Call("kadm.addPrincipal", res))
           /\ kadmin' = [kadmin EXCEPT ![r] = left.stdin]
           /\ IF res = "ok"
              THEN /\ principals' = principals \cup {Login(r)}
                   /\ rollback' = [rollback EXCEPT ![r] = @ \o cbs]
                   /\ pushed' = [pushed EXCEPT ![r] = @ \o cbs]
                   /\ pc' = [pc EXCEPT ![r] = "homedir"]
                   /\ UNCHANGED <<exc, thrown, raised, resp>>
              ELSE /\ RaiseIn(r, IF res = "AssertionError"
                                 THEN Other("AssertionError")
                                 ELSE ServerError("kerberos_failed"))
                   /\ UNCHANGED <<principals, rollback, pushed>>
  /\ UNCHANGED <<kind, user, form, uid, conn, tries, executed, outcomes, mkdirs>>
  /\ UNCHANGED <<reservedUsers, reservedGroups, ldapPeople, ldapGroup, passwd,
                 group, dirs>>
  /\ UNCHANGED <<token, deleteToken, now>>
  /\ UNCHANGED <<memberVars, prior, world0, svcVars>>

\* lines 238-250: POST /user/<user> to the homedir service, then 201
AddUserHomedir(r) ==
  /\ pc[r] = "homedir"
  /\ \E transportOk \in BOOLEAN, copyOk \in BOOLEAN :
       LET data == touchHome(Login(r), copyOk) IN
       IF ~transportOk
       THEN /\ Log(r, Call("homedir.post", "connect"))
            /\ RaiseIn(r, ServerError("mkhomedird_connect"))
            /\ UNCHANGED <<dirs, mkdirs, rollback>>
       ELSE /\ dirs' = data.dirs
            /\ mkdirs' = [mkdirs EXCEPT ![r] = data.dirs \ dirs]
            /\ Log(r, Call("homedir.post", data.status))
            /\ IF data.status # "ok"
               THEN /\ RaiseIn(r, ServerError("mkhomedir_failed"))
                    /\ UNCHANGED rollback
               ELSE ReturnFrom(r, [code |-> 201, status |-> "ok"])
  /\ UNCHANGED <<kind, user, form, uid, conn, tries, pushed, executed, outcomes>>
  /\ UNCHANGED <<reservedUsers, reservedGroups, ldapPeople, ldapGroup, passwd,
                 group, principals>>
  /\ UNCHANGED <<token, deleteToken, now>>
  /\ UNCHANGED extVars

(***************************************************************************)
(* POST /group/<newGroupName>: addGroup.                                   *)
(***************************************************************************)
\* ensureUser: the exception it raises, if any, for the lookup result res
ensureUser(res, error) ==
  IF res = {} THEN NotFound(error)
  ELSE IF \E e \in res : ~(MIN_UID <= e.uid /\ e.uid < MAX_UID)
  THEN Forbidden("unauthorized")
  ELSE NoExc

\* lines 376-392: the owner must exist, a gid is allocated; the handler
\* then awaits ldapclient.connect
AddGroupStart(r) ==
  /\ pc[r] = "idle"
  /\ \E p \in Principals, it \in Draws(MIN_GID, MAX_GID) :
       LET e == ensureUser(getUserByName(passwd, p), "user_not_found")
           g == findUnusedGroup(it)
       IN  /\ kind' = [kind EXCEPT ![r] = "addGroup"]
           /\ user' = [user EXCEPT ![r] = p]
           /\ IF e # NoExc
              THEN /\ RaiseIn(r, e)
                   /\ UNCHANGED <<uid, reservedGroups>>
              ELSE IF g = None
              THEN /\ reservedGroups' = Release(Reserve(reservedGroups, g), g)
                   /\ RaiseIn(r, ServerError("gid"))
                   /\ UNCHANGED uid
              ELSE /\ reservedGroups' = Reserve(reservedGroups, g)
                   /\ uid' = [uid EXCEPT ![r] = g]
                   /\ pc' = [pc EXCEPT ![r] = "g_connect"]
                   /\ UNCHANGED <<exc, thrown, raised, resp>>
  /\ UNCHANGED <<form, conn, tries, rollback, pushed, executed, outcomes, calls,
                 mkdirs>>
  /\ UNCHANGED <<reservedUsers, ldapPeople, ldapGroup, passwd, group,
                 principals, dirs>>
  /\ UNCHANGED <<token, deleteToken, now>>
  /\ UNCHANGED extVars

\* line 392: ldapclient.connect
AddGroupConnect(r) ==
  /\ pc[r] = "g_connect"
  /\ \E ok \in BOOLEAN :
       IF ~ok
       THEN /\ Log(r, Call("ldap.connect", "error"))
            /\ reservedGroups' = Release(reservedGroups, uid[r])
            /\ RaiseIn(r, Other("LDAPError"))
            /\ UNCHANGED conn
       ELSE /\ Log(r, Call("ldap.connect", "ok"))
            /\ conn' = [conn EXCEPT ![r] = "open"]
            /\ pc' = [pc EXCEPT ![r] = "g_add"]
            /\ UNCHANGED <<exc, thrown, raised, resp, reservedGroups>>
  /\ UNCHANGED <<kind, user, form, uid, tries, rollback, pushed, executed,
                 outcomes, mkdirs>>
  /\ UNCHANGED <<reservedUsers, ldapPeople, ldapGroup, passwd, group,
                 principals, dirs>>
  /\ UNCHANGED <<token, deleteToken, now>>
  /\ UNCHANGED extVars

\* lines 402-416: conn.add (o) of the group; on success the flush and the
\* deletion are pushed, the allocator's scope is left and the consistency
\* wait begins (the connection stays open)
AddGroupEntry(r) ==
  /\ pc[r] = "g_add"
  /\ \E serverOk \in BOOLEAN :
       LET res == AddResult(serverOk,
                            \E e \in ldapGroup : e.name = GroupName(uid[r]))
           cbs == << Callback("flushUserCache", None, TRUE),
                     Callback("group.delete", GroupName(uid[r]), TRUE) >>
       IN  /\ Log(r, Call("ldap.add_group", res))
           /\ reservedGroups' = Release(reservedGroups, uid[r])
           /\ IF res = "ok"
              THEN /\ ldapGroup' = ldapGroup \cup {NewGroup(uid[r], user[r])}
                   /\ rollback' = [rollback EXCEPT ![r] = @ \o cbs]
                   /\ pushed' = [pushed EXCEPT ![r] = @ \o cbs]
                   /\ tries' = [tries EXCEPT ![r] = 0]
                   /\ pc' = [pc EXCEPT ![r] = "g_wait_flush"]
                   /\ UNCHANGED <<exc, thrown, raised, resp>>
              ELSE /\ RaiseIn(r, IF res = "exists" THEN ServerError("group_exists")
                                 ELSE Other("LDAPError"))
                   /\ UNCHANGED <<ldapGroup, rollback, pushed, tries>>
  /\ UNCHANGED <<kind, user, form, uid, conn, executed, outcomes, mkdirs>>
  /\ UNCHANGED <<reservedUsers, ldapPeople, passwd, group, principals, dirs>>
  /\ UNCHANGED <<token, deleteToken, now>>
  /\ UNCHANGED extVars

\* lines 415-439, one iteration of the consistency wait up to its sleep:
\* flush, resolve the group by name and by gid, and on success answer 201
\* with the names of the members
AddGroupWaitFlush(r) ==
  /\ pc[r] = "g_wait_flush"
  /\ \E o \in FlushOutcomes :
       /\ passwd' = o.passwd
       /\ group' = o.group
       /\ IF o.exc # NoExc
          THEN /\ Log(r, Call("flush", o.exc.status))
               /\ RaiseIn(r, o.exc)
               /\ UNCHANGED rollback
          ELSE \E v \in CheckResolved(getgrnam(o.group, GroupName(uid[r])),
                                      getgrgid(o.group, uid[r])) :
                 /\ Log2(r, Call("flush", "ok"), Call("getgr", v))
                 /\ CASE v = "KeyError" ->
                           /\ pc' = [pc EXCEPT ![r] = "g_wait_sleep"]
                           /\ UNCHANGED <<exc, thrown, raised, resp, rollback>>
                      [] v = "mismatch" ->
                           /\ RaiseIn(r, ServerError("group_mismatch"))
                           /\ UNCHANGED rollback
                      [] v = "ok" ->
                           IF \E b \in getgrgid(o.group, uid[r]) :
                                \E m \in b.memberUid : getUserByName(o.passwd, m) = {}
                           THEN /\ RaiseIn(r, Other("KeyError"))
                                /\ UNCHANGED rollback
                           ELSE ReturnFrom(r, [code |-> 201, status |-> "ok"])
  /\ UNCHANGED <<kind, user, form, uid, conn, tries, pushed, executed, outcomes,
                 mkdirs>>
  /\ UNCHANGED <<reservedUsers, reservedGroups, ldapPeople, ldapGroup,
                 principals, dirs>>
  /\ UNCHANGED <<token, deleteToken, now>>
  /\ UNCHANGED extVars

\* lines 428-431: after asyncio.sleep (1) the next iteration, or, after the
\* last one, resolve_timeout
AddGroupWaitSleep(r) ==
  /\ pc[r] = "g_wait_sleep"
  /\ tries' = [tries EXCEPT ![r] = @ + 1]
  /\ IF tries[r] + 1 < WaitIters
     THEN /\ pc' = [pc EXCEPT ![r] = "g_wait_flush"]
          /\ UNCHANGED <<exc, thrown, raised, resp>>
     ELSE RaiseIn(r, ServerError("resolve_timeout"))
  /\ UNCHANGED <<kind, user, form, uid, conn, rollback, pushed, executed,
                 outcomes, calls, mkdirs>>
  /\ UNCHANGED envVars
  /\ UNCHANGED token
  /\ UNCHANGED extVars

(***************************************************************************)
(* Cancellation: the client goes away while the handler is suspended; the  *)
(* await it stands at raises CancelledError, the with block of the         *)
(* allocator and the exit stack see it like any other exception.           *)
(***************************************************************************)
Suspended(r) ==
  pc[r] \in {"connect", "add_user", "add_group", "wait_flush", "wait_sleep",
             "kerberos", "homedir", "g_connect", "g_add", "g_wait_flush",
             "g_wait_sleep"}

\* a cancellation that ends the request on the spot: neither the finally
\* clause of the allocator nor the exit stack sees it
Cancel_NoUnwind(r) ==
  /\ Suspended(r)
  /\ pc' = [pc EXCEPT ![r] = "done"]
  /\ thrown' = [thrown EXCEPT ![r] = Other("CancelledError")]
  /\ raised' = [raised EXCEPT ![r] = Other("CancelledError")]
  /\ UNCHANGED <<kind, user, form, uid, conn, tries, rollback, exc, resp, pushed,
                 executed, outcomes, calls, mkdirs>>
  /\ UNCHANGED envVars
  /\ UNCHANGED token
  /\ UNCHANGED extVars

Cancel(r) ==
  /\ Suspended(r)
  /\ reservedUsers' = IF InUserScope(r) THEN Release(reservedUsers, uid[r])
                      ELSE reservedUsers
  /\ reservedGroups' = IF InGroupScope(r) THEN Release(reservedGroups, uid[r])
                       ELSE reservedGroups
  /\ RaiseIn(r, Other("CancelledError"))
  \* kadm.py, lines 55-70: in addPrincipal the await that is cancelled is
  \* the spawning of kadmin, one of the reads of the dialogue (stdin is
  \* open), or proc.wait (stdin is closed)
  /\ \E stdin \in {"none", "open", "closed"} :
       kadmin' = [kadmin EXCEPT ![r] = IF pc[r] = "kerberos" THEN stdin ELSE @]
  /\ UNCHANGED <<kind, user, form, uid, conn, tries, rollback, pushed, executed,
                 outcomes, calls, mkdirs>>
  /\ UNCHANGED <<ldapPeople, ldapGroup, passwd, group, principals, dirs>>
  /\ UNCHANGED <<token, deleteToken, now>>
  /\ UNCHANGED <<memberVars, prior, world0, svcVars>>

(***************************************************************************)
(* mkhomedird.py, deleteHome: DELETE /user/<user>, first without and then  *)
(* with a token.                                                           *)
(***************************************************************************)
\* the tokens randomSecret () may draw
Tokens == {"t1", "t2"}
NoToken == "none"

\* lines 169-183: without a token, a user that resolves gets a new token
\* that remembers the time and what the user resolved to
deleteHomeAgain(name, tok, userdata) ==
  [code |-> 200, status |-> "again", token |-> tok,
   deleteToken |-> deleteToken \cup
                   {[token |-> tok, date |-> now, userdata |-> userdata]}]

\* a service that removes the directories without asking whether the user
\* still resolves
deleteHome_NoExistsCheck(name, tok) ==
  LET known == {t \in deleteToken : t.token = tok /\ t.userdata.name = name} IN
  IF known = {}
  THEN [code |-> 403, status |-> "token_invalid", dirs |-> dirs]
  ELSE LET t == CHOOSE t \in known : TRUE IN
       IF now - t.date > TokenLifetime
       THEN [code |-> 403, status |-> "token_expired", dirs |-> dirs]
       ELSE [code |-> 200, status |-> "ok",
             dirs |-> dirs \ { <<DIRECTORIES[i].path, t.userdata.name>> :
                               i \in {j \in 1..Len(DIRECTORIES) :
                                        DIRECTORIES[j].delete} }]

\* a service whose tokens never expire
deleteHome_NoExpiry(name, tok) ==
  LET known == {t \in deleteToken : t.token = tok /\ t.userdata.name = name} IN
  IF known = {}
  THEN [code |-> 403, status |-> "token_invalid", dirs |-> dirs]
  ELSE LET t == CHOOSE t \in known : TRUE IN
       IF getUserByName(passwd, t.userdata.name) # {}
       THEN [code |-> 403, status |-> "user_exists", dirs |-> dirs]
       ELSE [code |-> 200, status |-> "ok",
             dirs |-> dirs \ { <<DIRECTORIES[i].path, t.userdata.name>> :
                               i \in {j \in 1..Len(DIRECTORIES) :
                                        DIRECTORIES[j].delete} }]

\* lines 184-211: with a token, in the order of the checks: the token is
\* known and was issued for this name, it is not expired, the user does not
\* resolve any more; then the directories marked delete are removed
deleteHome(name, tok) ==
  LET known == {t \in deleteToken : t.token = tok /\ t.userdata.name = name} IN
  IF known = {}
  THEN [code |-> 403, status |-> "token_invalid", dirs |-> dirs]
  ELSE LET t == CHOOSE t \in known : TRUE IN
       IF now - t.date > TokenLifetime
       THEN [code |-> 403, status |-> "token_expired", dirs |-> dirs]
       ELSE IF getUserByName(passwd, t.userdata.name) # {}
       THEN [code |-> 403, status |-> "user_exists", dirs |-> dirs]
       ELSE [code |-> 200, status |-> "ok",
             dirs |-> dirs \ { <<DIRECTORIES[i].path, t.userdata.name>> :
                               i \in {j \in 1..Len(DIRECTORIES) :
                                        DIRECTORIES[j].delete} }]

\* the names a client of the socket may put into the path
HomedNames == {UserName(u) : u \in UidRange}

\* a DELETE /user/<user> and its answer; issued is the token of an answer
\* again
Answer(name, tok, code, status, issued) ==
  [name |-> name, token |-> tok, code |-> code, status |-> status,
   issued |-> issued]

NoRequest == Answer(<<>>, NoToken, 0, "none", NoToken)

\* a service that forgets a token once it was used
HomedDelete_ConsumeToken ==
  /\ \E name \in HomedNames, tok \in Tokens \cup {NoToken} :
       IF tok = NoToken
       THEN IF getUserByName(passwd, name) = {}
            THEN /\ homed' = Answer(name, tok, 404, "user_not_found", NoToken)
                 /\ UNCHANGED <<deleteToken, dirs>>
            ELSE \E userdata \in getUserByName(passwd, name),
                    newToken \in Tokens \ {t.token : t \in deleteToken} :
                   LET deldata == deleteHomeAgain(name, newToken, userdata) IN
                   /\ deleteToken' = deldata.deleteToken
                   /\ homed' = Answer(name, tok, deldata.code, deldata.status,
                                      deldata.token)
                   /\ UNCHANGED dirs
       ELSE LET deldata == deleteHome(name, tok) IN
            /\ dirs' = deldata.dirs
            /\ homed' = Answer(name, tok, deldata.code, deldata.status, NoToken)
            /\ deleteToken' = IF deldata.status = "ok"
                              THEN {t \in deleteToken : t.token # tok}
                              ELSE deleteToken
  /\ UNCHANGED <<reqVars, reservedUsers, reservedGroups, ldapPeople, ldapGroup,
                 passwd, group, principals, now>>
  /\ UNCHANGED <<memberVars, histVars, authVars, hostVars, homeVars>>

\* lines 152-219: the handler as any client of the socket reaches it, with
\* or without a token in the query string
HomedDelete ==
  /\ \E name \in HomedNames, tok \in Tokens \cup {NoToken} :
       IF tok = NoToken
       THEN IF getUserByName(passwd, name) = {}
            THEN /\ homed' = Answer(name, tok, 404, "user_not_found", NoToken)
                 /\ UNCHANGED <<deleteToken, dirs>>
            ELSE \E userdata \in getUserByName(passwd, name),
                    newToken \in Tokens \ {t.token : t \in deleteToken} :
                   LET deldata == deleteHomeAgain(name, newToken, userdata) IN
                   /\ deleteToken' = deldata.deleteToken
                   /\ homed' = Answer(name, tok, deldata.code, deldata.status,
                                      deldata.token)
                   /\ UNCHANGED dirs
       ELSE LET deldata == deleteHome(name, tok) IN
            /\ dirs' = deldata.dirs
            /\ homed' = Answer(name, tok, deldata.code, deldata.status, NoToken)
            /\ UNCHANGED deleteToken
  /\ UNCHANGED <<reqVars, reservedUsers, reservedGroups, ldapPeople, ldapGroup,
                 passwd, group, principals, now>>
  /\ UNCHANGED <<memberVars, histVars, authVars, hostVars, homeVars>>

(***************************************************************************)
(* DELETE /user: deleteUser.  The handler has no rollback scope: what it   *)
(* raises leaves it at once.                                               *)
(***************************************************************************)
\* a lookup that does not look at the uid
deleteUserLookup_NoRange(res) ==
  IF res = {} THEN NotFound("user_not_found") ELSE NoExc

\* lines 267-280: the exception the lookup of the local part ends in, if
\* any: unknown is 404 user_not_found, a uid outside the range is 403
deleteUserLookup(res) ==
  IF res = {} THEN NotFound("user_not_found")
  ELSE IF \E e \in res : ~(MIN_UID <= e.uid /\ e.uid < MAX_UID)
  THEN Forbidden("unauthorized")
  ELSE NoExc

\* line 268: the name the handler works on
Target(r) == LocalPart(user[r])

\* lines 262-284: the lookup and the range check; the handler then awaits
\* kadm.getPrincipal
DeleteUserStart(r) ==
  /\ pc[r] = "idle"
  /\ \E p \in Principals :
       LET res == getUserByName(passwd, LocalPart(p))
           e == deleteUserLookup(res)
       IN  /\ kind' = [kind EXCEPT ![r] = "deleteUser"]
           /\ user' = [user EXCEPT ![r] = p]
           /\ IF e # NoExc
              THEN /\ RaiseIn(r, e)
                   /\ UNCHANGED uid
              ELSE /\ \E a \in res : uid' = [uid EXCEPT ![r] = a.uid]
                   /\ pc' = [pc EXCEPT ![r] = "d_getprinc"]
                   /\ UNCHANGED <<exc, thrown, raised, resp>>
  /\ UNCHANGED <<form, conn, tries, rollback, pushed, executed, outcomes, calls,
                 mkdirs, token>>
  /\ UNCHANGED envVars
  /\ prior' = [prior EXCEPT ![r] = Ended]
  /\ UNCHANGED <<memberVars, world0, kadmin, svcVars>>

\* a handler for which a principal that is not found is a failure of
\* Kerberos
DeleteUserGetPrincipal_Abort(r) ==
  /\ pc[r] = "d_getprinc"
  /\ \E ret \in {0, 1} :
       /\ (ret = 0) => Target(r) \in principals
       /\ Log(r, Call("kadm.getPrincipal", IF ret = 0 THEN "ok" ELSE "KeyError"))
       /\ IF ret = 0
          THEN /\ pc' = [pc EXCEPT ![r] = "d_delprinc"]
               /\ UNCHANGED <<exc, thrown, raised, resp>>
          ELSE RaiseIn(r, ServerError("kerberos_failed"))
  /\ UNCHANGED <<kind, user, form, uid, conn, tries, rollback, pushed, executed,
                 outcomes, mkdirs, token>>
  /\ UNCHANGED envVars
  /\ UNCHANGED extVars

\* lines 283-288: kadm.getPrincipal; any exit code but 0 is KeyError and
\* the handler goes on to the homedir service
DeleteUserGetPrincipal(r) ==
  /\ pc[r] = "d_getprinc"
  /\ \E ret \in {0, 1} :
       /\ (ret = 0) => Target(r) \in principals
       /\ Log(r, Call("kadm.getPrincipal", IF ret = 0 THEN "ok" ELSE "KeyError"))
       /\ pc' = [pc EXCEPT ![r] = IF ret = 0 THEN "d_delprinc" ELSE "d_token"]
  /\ UNCHANGED <<kind, user, form, uid, conn, tries, rollback, exc, thrown, raised,
                 resp, pushed, executed, outcomes, mkdirs, token>>
  /\ UNCHANGED envVars
  /\ UNCHANGED extVars

\* lines 286-291: kadm.deletePrincipal; a KAdmException is kerberos_failed
DeleteUserDeletePrincipal(r) ==
  /\ pc[r] = "d_delprinc"
  /\ \E ret \in {0, 1} :
       /\ (ret = 0) => Target(r) \in principals
       /\ IF ret = 0
          THEN /\ Log(r, Call("kadm.deletePrincipal", "ok"))
               /\ principals' = principals \ {Target(r)}
               /\ pc' = [pc EXCEPT ![r] = "d_token"]
               /\ UNCHANGED <<exc, thrown, raised, resp>>
          ELSE /\ Log(r, Call("kadm.deletePrincipal", "KAdmException"))
               /\ RaiseIn(r, ServerError("kerberos_failed"))
               /\ UNCHANGED principals
  /\ UNCHANGED <<kind, user, form, uid, conn, tries, rollback, pushed, executed,
                 outcomes, mkdirs, token>>
  /\ UNCHANGED <<reservedUsers, reservedGroups, ldapPeople, ldapGroup, passwd,
                 group, dirs, deleteToken, now>>
  /\ UNCHANGED extVars

\* a handler that goes on to the directory when the homedir service does
\* not answer again
DeleteUserToken_GoOn(r) ==
  /\ pc[r] = "d_token"
  /\ \E transportOk \in BOOLEAN :
       IF ~transportOk
       THEN /\ Log(r, Call("homedir.delete", "connect"))
            /\ RaiseIn(r, ServerError("mkhomedird_connect_token"))
            /\ UNCHANGED <<token, deleteToken>>
       ELSE IF getUserByName(passwd, Target(r)) = {}
       THEN /\ Log(r, Call("homedir.delete", "user_not_found"))
            /\ pc' = [pc EXCEPT ![r] = "d_connect"]
            /\ UNCHANGED <<exc, thrown, raised, resp>>
            /\ UNCHANGED <<token, deleteToken>>
       ELSE \E userdata \in getUserByName(passwd, Target(r)),
               tok \in Tokens \ {t.token : t \in deleteToken} :
              LET deldata == deleteHomeAgain(Target(r), tok, userdata) IN
              /\ Log(r, Call("homedir.delete", deldata.status))
              /\ deleteToken' = deldata.deleteToken
              /\ token' = [token EXCEPT ![r] = deldata.token]
              /\ pc' = [pc EXCEPT ![r] = "d_connect"]
              /\ UNCHANGED <<exc, thrown, raised, resp>>
  /\ UNCHANGED <<kind, user, form, uid, conn, tries, rollback, pushed, executed,
                 outcomes, mkdirs>>
  /\ UNCHANGED <<reservedUsers, reservedGroups, ldapPeople, ldapGroup, passwd,
                 group, principals, dirs, now>>
  /\ UNCHANGED extVars

\* lines 294-304: DELETE /user/<user> without a token; anything but again
\* is mkhomedird_token; the handler then awaits ldapclient.connect
DeleteUserToken(r) ==
  /\ pc[r] = "d_token"
  /\ \E transportOk \in BOOLEAN :
       IF ~transportOk
       THEN /\ Log(r, Call("homedir.delete", "connect"))
            /\ RaiseIn(r, ServerError("mkhomedird_connect_token"))
            /\ UNCHANGED <<token, deleteToken>>
       ELSE IF getUserByName(passwd, Target(r)) = {}
       THEN /\ Log(r, Call("homedir.delete", "user_not_found"))
            /\ RaiseIn(r, ServerError("mkhomedird_token"))
            /\ UNCHANGED <<token, deleteToken>>
       ELSE \E userdata \in getUserByName(passwd, Target(r)),
               tok \in Tokens \ {t.token : t \in deleteToken} :
              LET deldata == deleteHomeAgain(Target(r), tok, userdata) IN
              /\ Log(r, Call("homedir.delete", deldata.status))
              /\ deleteToken' = deldata.deleteToken
              /\ token' = [token EXCEPT ![r] = deldata.token]
              /\ pc' = [pc EXCEPT ![r] = "d_connect"]
              /\ UNCHANGED <<exc, thrown, raised, resp>>
  /\ UNCHANGED <<kind, user, form, uid, conn, tries, rollback, pushed, executed,
                 outcomes, mkdirs>>
  /\ UNCHANGED <<reservedUsers, reservedGroups, ldapPeople, ldapGroup, passwd,
                 group, principals, dirs, now>>
  /\ UNCHANGED extVars

\* line 304: ldapclient.connect
DeleteUserConnect(r) ==
  /\ pc[r] = "d_connect"
  /\ \E ok \in BOOLEAN :
       IF ~ok
       THEN /\ Log(r, Call("ldap.connect", "error"))
            /\ RaiseIn(r, Other("LDAPError"))
            /\ UNCHANGED conn
       ELSE /\ Log(r, Call("ldap.connect", "ok"))
            /\ conn' = [conn EXCEPT ![r] = "open"]
            /\ pc' = [pc EXCEPT ![r] = "d_user"]
            /\ UNCHANGED <<exc, thrown, raised, resp>>
  /\ UNCHANGED <<kind, user, form, uid, tries, rollback, pushed, executed,
                 outcomes, mkdirs, token>>
  /\ UNCHANGED envVars
  /\ UNCHANGED extVars

\* conn.delete (dn): NoSuchObjectError when the server holds no entry of
\* that name, LDAPError when the server fails
DeleteResult(serverOk, exists) ==
  IF ~serverOk THEN "error" ELSE IF exists THEN "ok" ELSE "NoSuchObjectError"

\* lines 305-308: conn.delete of the user entry; NoSuchObjectError is
\* passed over
DeleteUserEntry(r) ==
  /\ pc[r] = "d_user"
  /\ \E serverOk \in BOOLEAN :
       LET res == DeleteResult(serverOk, \E e \in ldapPeople : e.name = Target(r))
       IN  /\ Log(r, Call("ldap.delete_user", res))
           /\ IF res = "error"
              THEN /\ RaiseIn(r, Other("LDAPError"))
                   /\ UNCHANGED ldapPeople
              ELSE /\ ldapPeople' = {e \in ldapPeople : e.name # Target(r)}
                   /\ pc' = [pc EXCEPT ![r] = "d_group"]
                   /\ UNCHANGED <<exc, thrown, raised, resp>>
  /\ UNCHANGED <<kind, user, form, uid, conn, tries, rollback, pushed, executed,
                 outcomes, mkdirs, token>>
  /\ UNCHANGED <<reservedUsers, reservedGroups, ldapGroup, passwd, group,
                 principals, dirs, deleteToken, now>>
  /\ UNCHANGED extVars

\* lines 309-312: conn.delete of the primary group; NoSuchObjectError is
\* passed over
DeleteUserGroup(r) ==
  /\ pc[r] = "d_group"
  /\ \E serverOk \in BOOLEAN :
       LET res == DeleteResult(serverOk, \E e \in ldapGroup : e.name = Target(r))
       IN  /\ Log(r, Call("ldap.delete_group", res))
           /\ IF res = "error"
              THEN /\ RaiseIn(r, Other("LDAPError"))
                   /\ UNCHANGED ldapGroup
              ELSE /\ ldapGroup' = {e \in ldapGroup : e.name # Target(r)}
                   /\ pc' = [pc EXCEPT ![r] = "d_members"]
                   /\ UNCHANGED <<exc, thrown, raised, resp>>
  /\ UNCHANGED <<kind, user, form, uid, conn, tries, rollback, pushed, executed,
                 outcomes, mkdirs, token>>
  /\ UNCHANGED <<reservedUsers, reservedGroups, ldapPeople, passwd, group,
                 principals, dirs, deleteToken, now>>
  /\ UNCHANGED extVars

\* what the directory answers to the change of one value of memberUid:
\* NoSuchObjectError without the entry, an error when the value to add is
\* there already or the value to delete is not
ModifyResult(serverOk, exists, applies) ==
  IF ~serverOk THEN "error"
  ELSE IF ~exists THEN "NoSuchObjectError"
  ELSE IF ~applies THEN "error"
  ELSE "ok"

\* lines 314-316: the groups the user is a member of are searched
DeleteUserSearch(r) ==
  /\ pc[r] = "d_members"
  /\ \E serverOk \in BOOLEAN :
       IF ~serverOk
       THEN /\ Log(r, Call("ldap.search", "error"))
            /\ RaiseIn(r, Other("LDAPError"))
            /\ UNCHANGED results
       ELSE LET found == {g.name : g \in {h \in ldapGroup :
                                           Target(r) \in h.memberUid}}
            IN  /\ Log(r, Call("ldap.search", "ok"))
                /\ results' = [results EXCEPT ![r] = found]
                /\ pc' = [pc EXCEPT ![r] = IF found = {} THEN "gc_search"
                                                         ELSE "d_modify"]
                /\ UNCHANGED <<exc, thrown, raised, resp>>
  /\ UNCHANGED <<kind, user, form, uid, conn, tries, rollback, pushed, executed,
                 outcomes, mkdirs, token>>
  /\ UNCHANGED envVars
  /\ UNCHANGED <<modgroup, moduser, gcFound, histVars, svcVars>>

\* lines 317-320: one turn of the loop: the membership is removed from one
\* of the groups found; what the directory refuses leaves the handler
DeleteUserMemberships(r) ==
  /\ pc[r] = "d_modify"
  /\ \E name \in results[r], serverOk \in BOOLEAN :
       LET entry == {g \in ldapGroup : g.name = name}
           res == ModifyResult(serverOk, entry # {},
                               \E g \in entry : Target(r) \in g.memberUid)
           left == results[r] \ {name}
       IN  /\ Log(r, Call("ldap.modify", res))
           /\ IF res # "ok"
              THEN /\ RaiseIn(r, Other(IF res = "error" THEN "LDAPError" ELSE res))
                   /\ UNCHANGED <<ldapGroup, results>>
              ELSE /\ ldapGroup' = { IF g.name = name
                                     THEN [g EXCEPT !.memberUid = @ \ {Target(r)}]
                                     ELSE g : g \in ldapGroup }
                   /\ results' = [results EXCEPT ![r] = left]
                   /\ pc' = [pc EXCEPT ![r] = IF left = {} THEN "gc_search"
                                                           ELSE "d_modify"]
                   /\ UNCHANGED <<exc, thrown, raised, resp>>
  /\ UNCHANGED <<kind, user, form, uid, conn, tries, rollback, pushed, executed,
                 outcomes, mkdirs, token>>
  /\ UNCHANGED <<reservedUsers, reservedGroups, ldapPeople, passwd, group,
                 principals, dirs, deleteToken, now>>
  /\ UNCHANGED <<modgroup, moduser, gcFound, histVars, svcVars>>

(***************************************************************************)
(* garbageCollectGroups, called by deleteUser and by deleteGroup.          *)
(***************************************************************************)
\* a query that matches no group
EmptyGroups_Unseen == {}

\* line 522: the groups the query matches: a gid from MIN_GID to MAX_GID,
\* both included, and no memberUid
EmptyGroups ==
  {g \in ldapGroup : MIN_GID <= g.gid /\ g.gid <= MAX_GID /\ g.memberUid = {}}

\* where the handler that called garbageCollectGroups goes on after
\* conn.close ()
AfterCollect(r) == IF kind[r] = "deleteUser" THEN "d_flush" ELSE "x_wait_flush"

\* lines 525-527: the search; without a result the function returns and
\* the caller closes the connection
GcSearch(r) ==
  /\ pc[r] = "gc_search"
  /\ \E serverOk \in BOOLEAN :
       IF ~serverOk
       THEN /\ Log(r, Call("ldap.gc", "error"))
            /\ RaiseIn(r, Other("LDAPError"))
            /\ UNCHANGED <<gcFound, conn>>
       ELSE /\ gcFound' = [gcFound EXCEPT ![r] =
                             [todo |-> {[name |-> g.name, gid |-> g.gid] :
                                         g \in EmptyGroups},
                              gids |-> {}]]
            /\ IF EmptyGroups = {}
               THEN /\ Log2(r, Call("ldap.gc", "ok"), Call("ldap.close", "ok"))
                    /\ conn' = [conn EXCEPT ![r] = "closed"]
                    /\ pc' = [pc EXCEPT ![r] = AfterCollect(r)]
               ELSE /\ Log(r, Call("ldap.gc", "ok"))
                    /\ pc' = [pc EXCEPT ![r] = "gc_delete"]
                    /\ UNCHANGED conn
            /\ UNCHANGED <<exc, thrown, raised, resp>>
  /\ UNCHANGED <<kind, user, form, uid, tries, rollback, pushed, executed,
                 outcomes, mkdirs, token>>
  /\ UNCHANGED envVars
  /\ UNCHANGED <<modgroup, moduser, results, histVars, svcVars>>

\* lines 528-535: one turn of the loop: g.delete () of one group found, by
\* its name, whatever the entry holds by now; NoSuchObjectError is passed
\* over; after the last turn, without a gid the function returns
GcDelete(r) ==
  /\ pc[r] = "gc_delete"
  /\ \E g \in gcFound[r].todo, serverOk \in BOOLEAN :
       LET res == DeleteResult(serverOk, \E e \in ldapGroup : e.name = g.name)
           left == gcFound[r].todo \ {g}
           gids == IF res = "ok" THEN gcFound[r].gids \cup {g.gid}
                   ELSE gcFound[r].gids
       IN  IF res = "error"
           THEN /\ Log(r, Call("ldap.delete_empty", res))
                /\ RaiseIn(r, Other("LDAPError"))
                /\ UNCHANGED <<ldapGroup, gcFound, conn>>
           ELSE /\ ldapGroup' = {e \in ldapGroup : e.name # g.name}
                /\ gcFound' = [gcFound EXCEPT ![r] = [todo |-> left, gids |-> gids]]
                /\ IF left = {} /\ gids = {}
                   THEN /\ Log2(r, Call("ldap.delete_empty", res),
                                Call("ldap.close", "ok"))
                        /\ conn' = [conn EXCEPT ![r] = "closed"]
                        /\ pc' = [pc EXCEPT ![r] = AfterCollect(r)]
                   ELSE /\ Log(r, Call("ldap.delete_empty", res))
                        /\ pc' = [pc EXCEPT ![r] = IF left = {} THEN "gc_acl"
                                                                ELSE "gc_delete"]
                        /\ UNCHANGED conn
                /\ UNCHANGED <<exc, thrown, raised, resp>>
  /\ UNCHANGED <<kind, user, form, uid, tries, rollback, pushed, executed,
                 outcomes, mkdirs, token>>
  /\ UNCHANGED <<reservedUsers, reservedGroups, ldapPeople, passwd, group,
                 principals, dirs, deleteToken, now>>
  /\ UNCHANGED <<modgroup, moduser, results, histVars, svcVars>>

\* lines 537-543: the homedir service revokes the ACLs of the gids that
\* were deleted; an answer other than ok is mkhomedir_group_delete; then
\* the caller closes the connection
GcRevoke(r) ==
  /\ pc[r] = "gc_acl"
  /\ \E aclStatus \in {"ok", "invalid_gid", "ClientError"} :
       IF aclStatus = "ok"
       THEN /\ Log2(r, Call("homedir.delete_group", "ok"), Call("ldap.close", "ok"))
            /\ conn' = [conn EXCEPT ![r] = "closed"]
            /\ pc' = [pc EXCEPT ![r] = AfterCollect(r)]
            /\ UNCHANGED <<exc, thrown, raised, resp>>
       ELSE /\ Log(r, Call("homedir.delete_group", aclStatus))
            /\ RaiseIn(r, IF aclStatus = "ClientError"
                          THEN Other("ClientError")
                          ELSE ServerError("mkhomedir_group_delete"))
            /\ UNCHANGED conn
  /\ UNCHANGED <<kind, user, form, uid, tries, rollback, pushed, executed,
                 outcomes, mkdirs, token>>
  /\ UNCHANGED envVars
  /\ UNCHANGED extVars

garbageCollectGroups(r) == GcSearch(r) \/ GcDelete(r) \/ GcRevoke(r)

\* line 324: flushUserCache
DeleteUserFlush(r) ==
  /\ pc[r] = "d_flush"
  /\ \E o \in FlushOutcomes :
       /\ passwd' = o.passwd
       /\ group' = o.group
       /\ IF o.exc # NoExc
          THEN /\ Log(r, Call("flush", o.exc.status))
               /\ RaiseIn(r, o.exc)
          ELSE /\ Log(r, Call("flush", "ok"))
               /\ pc' = [pc EXCEPT ![r] = "d_home"]
               /\ UNCHANGED <<exc, thrown, raised, resp>>
  /\ UNCHANGED <<kind, user, form, uid, conn, tries, rollback, pushed, executed,
                 outcomes, mkdirs, token>>
  /\ UNCHANGED <<reservedUsers, reservedGroups, ldapPeople, ldapGroup,
                 principals, dirs, deleteToken, now>>
  /\ UNCHANGED extVars

\* lines 326-338: DELETE /user/<user> with the token; anything but ok is
\* mkhomedir_delete; then 200
DeleteUserHome(r) ==
  /\ pc[r] = "d_home"
  /\ \E transportOk \in BOOLEAN :
       LET deldata == deleteHome(Target(r), token[r]) IN
       IF ~transportOk
       THEN /\ Log(r, Call("homedir.delete", "connect"))
            /\ RaiseIn(r, ServerError("mkhomedird_connect_delete"))
            /\ UNCHANGED <<dirs, rollback>>
       ELSE /\ Log(r, Call("homedir.delete", deldata.status))
            /\ dirs' = deldata.dirs
            /\ IF deldata.status # "ok"
               THEN /\ RaiseIn(r, ServerError("mkhomedir_delete"))
                    /\ UNCHANGED rollback
               ELSE ReturnFrom(r, [code |-> 200, status |-> "ok"])
  /\ UNCHANGED <<kind, user, form, uid, conn, tries, pushed, executed, outcomes,
                 mkdirs, token>>
  /\ UNCHANGED <<reservedUsers, reservedGroups, ldapPeople, ldapGroup, passwd,
                 group, principals, deleteToken, now>>
  /\ UNCHANGED extVars

\* time passes; nothing reads the clock but the homedir service, which
\* compares it with the date of a token, so the clock is started by the
\* first token
Tick ==
  /\ now < MaxClock
  /\ deleteToken # {}
  /\ now' = now + 1
  /\ UNCHANGED <<reqVars, reservedUsers, reservedGroups, ldapPeople, ldapGroup,
                 passwd, group, principals, dirs, deleteToken>>
  /\ UNCHANGED extVars

DeleteUser(r) ==
  \/ DeleteUserStart(r)
  \/ DeleteUserGetPrincipal(r)
  \/ DeleteUserDeletePrincipal(r)
  \/ DeleteUserToken(r)
  \/ DeleteUserConnect(r)
  \/ DeleteUserEntry(r)
  \/ DeleteUserGroup(r)
  \/ DeleteUserSearch(r)
  \/ DeleteUserMemberships(r)
  \/ garbageCollectGroups(r)
  \/ DeleteUserFlush(r)
  \/ DeleteUserHome(r)


(***************************************************************************)
(* Group membership: what addUserToGroup and deleteGroup share.            *)
(***************************************************************************)
\* the principals, group names and user names a membership request may
\* carry
MemberPrincipals ==
  {UserName(u) : u \in UidRange} \cup {<<"ghost", "@", "REALM">>}
ModGroups == {GroupName(MIN_GID), GroupName(MIN_GID + 1), UserName(MIN_UID)}
ModUsers == {UserName(u) : u \in UidRange} \cup {<<"ghost">>}

\* lines 441-449: ensureGroup: unknown is 404 nonexistent, a gid outside
\* MIN_GID <= gid < MAX_GID is 403 unauthorized
ensureGroup(res) ==
  IF res = {} THEN NotFound("nonexistent")
  ELSE IF \E g \in res : ~(MIN_GID <= g.gid /\ g.gid < MAX_GID)
  THEN Forbidden("unauthorized")
  ELSE NoExc

\* a check that lets everybody pass
ensureGroupMember_Anyone(res, name) == NoExc

\* lines 451-455: ensureGroupMember
ensureGroupMember(res, name) ==
  IF \E g \in res : name \notin g.memberUid
  THEN Forbidden("not_a_member")
  ELSE NoExc

\* the first exception of a sequence of checks, NoExc if all pass
FirstExc(checks) ==
  IF \A i \in 1..Len(checks) : checks[i] = NoExc THEN NoExc
  ELSE checks[CHOOSE i \in 1..Len(checks) :
                /\ checks[i] # NoExc
                /\ \A j \in 1..(i - 1) : checks[j] = NoExc]

\* what the handler keeps of the group it resolved
Resolved(res, name) ==
  IF res = {} THEN [name |-> name, gid |-> None]
  ELSE [name |-> name, gid |-> (CHOOSE g \in res : TRUE).gid]

\* lines 457-464: getLdapGroup: the entries the BASE search answers; the
\* exception for a missing entry is the one of the function or, when the
\* library reports the missing base itself, NoSuchObjectError
getLdapGroup(name) == {g \in ldapGroup : g.name = name}
MissingEntry == {Forbidden("inconsistent"), Other("NoSuchObjectError")}

\* the attributes of a people entry a search filter may name
ldapAttr == [uid |-> "name", uidNumber |-> "uid", gidNumber |-> "gid"]

\* conn.search (LDAP_BASE_PEOPLE, SUBTREE, f'({attr}={value})'): an
\* attribute the entries do not have matches none of them
searchPeople(attr, value) ==
  IF attr \in DOMAIN ldapAttr
  THEN {e \in ldapPeople : e[ldapAttr[attr]] = value}
  ELSE {}

\* LDAPValueList.append without the test for a value that is there
append_NoCheck(members, name) == "ok"

\* results['memberUid'].append (name): KeyError without the attribute,
\* ValueError for a value that is there
append(members, name) ==
  IF members = {} THEN "KeyError"
  ELSE IF name \in members THEN "ValueError"
  ELSE "ok"

\* LDAPValueList.remove that takes a missing value for removed
remove_Lenient(members, name) == "ok"

\* results['memberUid'].remove (name): KeyError without the attribute,
\* ValueError for a value that is not there
remove(members, name) ==
  IF members = {} THEN "KeyError"
  ELSE IF name \notin members THEN "ValueError"
  ELSE "ok"

\* lines 488 and 561: ldapclient.connect of a membership request, then the
\* position next
MemberConnect(r, at, next) ==
  /\ pc[r] = at
  /\ \E ok \in BOOLEAN :
       IF ~ok
       THEN /\ Log(r, Call("ldap.connect", "error"))
            /\ RaiseIn(r, Other("LDAPError"))
            /\ UNCHANGED conn
       ELSE /\ Log(r, Call("ldap.connect", "ok"))
            /\ conn' = [conn EXCEPT ![r] = "open"]
            /\ pc' = [pc EXCEPT ![r] = next]
            /\ UNCHANGED <<exc, thrown, raised, resp>>
  /\ UNCHANGED <<kind, user, form, uid, tries, rollback, pushed, executed,
                 outcomes, mkdirs, token>>
  /\ UNCHANGED envVars
  /\ UNCHANGED extVars

\* lines 510-515 and 601-606: after asyncio.sleep (1) the next iteration of
\* the consistency wait, or, after the last one, resolve_timeout
MemberWaitSleep(r, at, next) ==
  /\ pc[r] = at
  /\ tries' = [tries EXCEPT ![r] = @ + 1]
  /\ IF tries[r] + 1 < WaitIters
     THEN /\ pc' = [pc EXCEPT ![r] = next]
          /\ UNCHANGED <<exc, thrown, raised, resp>>
     ELSE RaiseIn(r, ServerError("resolve_timeout"))
  /\ UNCHANGED <<kind, user, form, uid, conn, rollback, pushed, executed,
                 outcomes, calls, mkdirs, token>>
  /\ UNCHANGED envVars
  /\ UNCHANGED extVars

(***************************************************************************)
(* POST /group/<modgroup>/<moduser>: addUserToGroup.  No rollback scope.   *)
(***************************************************************************)
\* lines 473-486: the checks, in their order; the handler then awaits
\* ldapclient.connect
AddUserToGroupStart(r) ==
  /\ pc[r] = "idle"
  /\ \E p \in MemberPrincipals, gname \in ModGroups, uname \in ModUsers :
       LET res == getgrnam(group, gname)
           e == FirstExc(<<
                  ensureGroup(res),
                  ensureUser(getUserByName(passwd, p),
                             "you_do_not_exist_in_this_world"),
                  ensureUser(getUserByName(passwd, uname), "user_not_found"),
                  ensureGroupMember(res, p) >>)
       IN  /\ kind' = [kind EXCEPT ![r] = "addUserToGroup"]
           /\ user' = [user EXCEPT ![r] = p]
           /\ modgroup' = [modgroup EXCEPT ![r] = Resolved(res, gname)]
           /\ moduser' = [moduser EXCEPT ![r] = uname]
           /\ IF e # NoExc
              THEN RaiseIn(r, e)
              ELSE /\ pc' = [pc EXCEPT ![r] = "a_connect"]
                   /\ UNCHANGED <<exc, thrown, raised, resp>>
  /\ prior' = [prior EXCEPT ![r] = Ended]
  /\ UNCHANGED <<form, uid, conn, tries, rollback, pushed, executed, outcomes,
                 calls, mkdirs, token>>
  /\ UNCHANGED envVars
  /\ UNCHANGED <<results, gcFound, world0, kadmin, svcVars>>

\* lines 490-493 and 495-499: getLdapGroup answers; the name is appended
\* to the list the handler holds; a name that is in the list is passed
\* over, the connection is closed and the wait begins; otherwise the
\* handler awaits results.modify
AddUserToGroupSearch(r) ==
  /\ pc[r] = "a_search"
  /\ \E serverOk \in BOOLEAN :
       LET entry == getLdapGroup(modgroup[r].name) IN
       IF ~serverOk
       THEN /\ Log(r, Call("ldap.search", "error"))
            /\ RaiseIn(r, Other("LDAPError"))
            /\ UNCHANGED <<results, conn>>
       ELSE IF entry = {}
       THEN /\ Log(r, Call("ldap.search", "missing"))
            /\ \E e \in MissingEntry : RaiseIn(r, e)
            /\ UNCHANGED <<results, conn>>
       ELSE \E g \in entry :
              LET v == append(g.memberUid, moduser[r]) IN
              /\ results' = [results EXCEPT ![r] = entry]
              /\ CASE v = "KeyError" ->
                        /\ Log(r, Call("ldap.search", "ok"))
                        /\ RaiseIn(r, Other("KeyError"))
                        /\ UNCHANGED conn
                   [] v = "ValueError" ->
                        /\ Log2(r, Call("ldap.search", "ok"), Call("ldap.close", "ok"))
                        /\ conn' = [conn EXCEPT ![r] = "closed"]
                        /\ pc' = [pc EXCEPT ![r] = "a_wait_flush"]
                        /\ UNCHANGED <<exc, thrown, raised, resp>>
                   [] v = "ok" ->
                        /\ Log(r, Call("ldap.search", "ok"))
                        /\ pc' = [pc EXCEPT ![r] = "a_modify"]
                        /\ UNCHANGED <<conn, exc, thrown, raised, resp>>
  /\ UNCHANGED <<kind, user, form, uid, tries, rollback, pushed, executed,
                 outcomes, mkdirs, token>>
  /\ UNCHANGED envVars
  /\ UNCHANGED <<modgroup, moduser, gcFound, histVars, svcVars>>

\* lines 494 and 499: the directory adds the value; then conn.close ()
AddUserToGroupModify(r) ==
  /\ pc[r] = "a_modify"
  /\ \E serverOk \in BOOLEAN :
       LET entry == getLdapGroup(modgroup[r].name)
           res == ModifyResult(serverOk, entry # {},
                               \E g \in entry : moduser[r] \notin g.memberUid)
       IN  IF res # "ok"
           THEN /\ Log(r, Call("ldap.modify", res))
                /\ RaiseIn(r, Other(IF res = "error" THEN "LDAPError" ELSE res))
                /\ UNCHANGED <<ldapGroup, conn>>
           ELSE /\ Log2(r, Call("ldap.modify", res), Call("ldap.close", "ok"))
                /\ ldapGroup' = { IF g.name = modgroup[r].name
                                  THEN [g EXCEPT !.memberUid = @ \cup {moduser[r]}]
                                  ELSE g : g \in ldapGroup }
                /\ conn' = [conn EXCEPT ![r] = "closed"]
                /\ pc' = [pc EXCEPT ![r] = "a_wait_flush"]
                /\ UNCHANGED <<exc, thrown, raised, resp>>
  /\ UNCHANGED <<kind, user, form, uid, tries, rollback, pushed, executed,
                 outcomes, mkdirs, token>>
  /\ UNCHANGED <<reservedUsers, reservedGroups, ldapPeople, passwd, group,
                 principals, dirs, deleteToken, now>>
  /\ UNCHANGED extVars

\* lines 503-511 and 516-518: one iteration of the wait: flush, then
\* grp.getgrnam, whose KeyError leaves the handler; with the user among the
\* members the answer is 200
AddUserToGroupWaitFlush(r) ==
  /\ pc[r] = "a_wait_flush"
  /\ \E o \in FlushOutcomes :
       LET res == getgrnam(o.group, modgroup[r].name) IN
       /\ passwd' = o.passwd
       /\ group' = o.group
       /\ IF o.exc # NoExc
          THEN /\ Log(r, Call("flush", o.exc.status))
               /\ RaiseIn(r, o.exc)
               /\ UNCHANGED rollback
          ELSE IF res = {}
          THEN /\ Log2(r, Call("flush", "ok"), Call("getgr", "KeyError"))
               /\ RaiseIn(r, Other("KeyError"))
               /\ UNCHANGED rollback
          ELSE IF \E g \in res : moduser[r] \in g.memberUid
          THEN /\ Log2(r, Call("flush", "ok"), Call("getgr", "ok"))
               /\ ReturnFrom(r, [code |-> 200, status |-> "ok"])
          ELSE /\ Log2(r, Call("flush", "ok"), Call("getgr", "retry"))
               /\ pc' = [pc EXCEPT ![r] = "a_wait_sleep"]
               /\ UNCHANGED <<exc, thrown, raised, resp, rollback>>
  /\ UNCHANGED <<kind, user, form, uid, conn, tries, pushed, executed, outcomes,
                 mkdirs, token>>
  /\ UNCHANGED <<reservedUsers, reservedGroups, ldapPeople, ldapGroup,
                 principals, dirs, deleteToken, now>>
  /\ UNCHANGED extVars

addUserToGroup(r) ==
  \/ AddUserToGroupStart(r)
  \/ MemberConnect(r, "a_connect", "a_search")
  \/ AddUserToGroupSearch(r)
  \/ AddUserToGroupModify(r)
  \/ AddUserToGroupWaitFlush(r)
  \/ MemberWaitSleep(r, "a_wait_sleep", "a_wait_flush")

(***************************************************************************)
(* DELETE /group/<delgroup>: deleteGroup, which removes the authenticated  *)
(* user from the group.  No rollback scope.                                *)
(***************************************************************************)
\* line 566: the attribute the filter of the primary-group search names
PrimaryGroupFilter == "gidHumber"

\* lines 555-559: the checks; the handler then awaits ldapclient.connect
DeleteGroupStart(r) ==
  /\ pc[r] = "idle"
  /\ \E p \in MemberPrincipals, gname \in ModGroups :
       LET res == getgrnam(group, gname)
           e == FirstExc(<<
                  ensureGroup(res),
                  ensureUser(getUserByName(passwd, p), "user_not_found") >>)
       IN  /\ kind' = [kind EXCEPT ![r] = "deleteGroup"]
           /\ user' = [user EXCEPT ![r] = p]
           /\ modgroup' = [modgroup EXCEPT ![r] = Resolved(res, gname)]
           /\ IF e # NoExc
              THEN RaiseIn(r, e)
              ELSE /\ pc' = [pc EXCEPT ![r] = "x_connect"]
                   /\ UNCHANGED <<exc, thrown, raised, resp>>
  /\ prior' = [prior EXCEPT ![r] = Ended]
  /\ UNCHANGED <<form, uid, conn, tries, rollback, pushed, executed, outcomes,
                 calls, mkdirs, token>>
  /\ UNCHANGED envVars
  /\ UNCHANGED <<moduser, results, gcFound, world0, kadmin, svcVars>>

\* lines 563-569: the search for accounts that have the group as their
\* primary group; any result is 403 primary_group
DeleteGroupPrimary(r) ==
  /\ pc[r] = "x_primary"
  /\ \E serverOk \in BOOLEAN :
       IF ~serverOk
       THEN /\ Log(r, Call("ldap.search_primary", "error"))
            /\ RaiseIn(r, Other("LDAPError"))
       ELSE IF searchPeople(PrimaryGroupFilter, modgroup[r].gid) # {}
       THEN /\ Log(r, Call("ldap.search_primary", "found"))
            /\ RaiseIn(r, Forbidden("primary_group"))
       ELSE /\ Log(r, Call("ldap.search_primary", "none"))
            /\ pc' = [pc EXCEPT ![r] = "x_search"]
            /\ UNCHANGED <<exc, thrown, raised, resp>>
  /\ UNCHANGED <<kind, user, form, uid, conn, tries, rollback, pushed, executed,
                 outcomes, mkdirs, token>>
  /\ UNCHANGED envVars
  /\ UNCHANGED extVars

\* lines 571-580: getLdapGroup answers; the user is removed from the list
\* the handler holds; a list without the user, or no list, is 404
\* not_a_member; otherwise the handler awaits results.modify
DeleteGroupSearch(r) ==
  /\ pc[r] = "x_search"
  /\ \E serverOk \in BOOLEAN :
       LET entry == getLdapGroup(modgroup[r].name) IN
       IF ~serverOk
       THEN /\ Log(r, Call("ldap.search", "error"))
            /\ RaiseIn(r, Other("LDAPError"))
            /\ UNCHANGED results
       ELSE IF entry = {}
       THEN /\ Log(r, Call("ldap.search", "missing"))
            /\ \E e \in MissingEntry : RaiseIn(r, e)
            /\ UNCHANGED results
       ELSE \E g \in entry :
              /\ Log(r, Call("ldap.search", "ok"))
              /\ results' = [results EXCEPT ![r] = entry]
              /\ IF remove(g.memberUid, user[r]) # "ok"
                 THEN RaiseIn(r, NotFound("not_a_member"))
                 ELSE /\ pc' = [pc EXCEPT ![r] = "x_modify"]
                      /\ UNCHANGED <<exc, thrown, raised, resp>>
  /\ UNCHANGED <<kind, user, form, uid, conn, tries, rollback, pushed, executed,
                 outcomes, mkdirs, token>>
  /\ UNCHANGED envVars
  /\ UNCHANGED <<modgroup, moduser, gcFound, histVars, svcVars>>

\* line 581: the directory deletes the value; the handler then awaits the
\* search of garbageCollectGroups
DeleteGroupModify(r) ==
  /\ pc[r] = "x_modify"
  /\ \E serverOk \in BOOLEAN :
       LET entry == getLdapGroup(modgroup[r].name)
           res == ModifyResult(serverOk, entry # {},
                               \E g \in entry : user[r] \in g.memberUid)
       IN  /\ Log(r, Call("ldap.modify", res))
           /\ IF res # "ok"
              THEN /\ RaiseIn(r, Other(IF res = "error" THEN "LDAPError" ELSE res))
                   /\ UNCHANGED ldapGroup
              ELSE /\ ldapGroup' = { IF g.name = modgroup[r].name
                                     THEN [g EXCEPT !.memberUid = @ \ {user[r]}]
                                     ELSE g : g \in ldapGroup }
                   /\ pc' = [pc EXCEPT ![r] = "gc_search"]
                   /\ UNCHANGED <<exc, thrown, raised, resp>>
  /\ UNCHANGED <<kind, user, form, uid, conn, tries, rollback, pushed, executed,
                 outcomes, mkdirs, token>>
  /\ UNCHANGED <<reservedUsers, reservedGroups, ldapPeople, passwd, group,
                 principals, dirs, deleteToken, now>>
  /\ UNCHANGED extVars

\* lines 586-602 and 607: one iteration of the wait: flush, then
\* grp.getgrnam; a group that is gone or no longer lists the user is 200
DeleteGroupWaitFlush(r) ==
  /\ pc[r] = "x_wait_flush"
  /\ \E o \in FlushOutcomes :
       LET res == getgrnam(o.group, modgroup[r].name) IN
       /\ passwd' = o.passwd
       /\ group' = o.group
       /\ IF o.exc # NoExc
          THEN /\ Log(r, Call("flush", o.exc.status))
               /\ RaiseIn(r, o.exc)
               /\ UNCHANGED rollback
          ELSE IF res = {} \/ \E g \in res : user[r] \notin g.memberUid
          THEN /\ Log2(r, Call("flush", "ok"),
                       Call("getgr", IF res = {} THEN "KeyError" ELSE "ok"))
               /\ ReturnFrom(r, [code |-> 200, status |-> "ok"])
          ELSE /\ Log2(r, Call("flush", "ok"), Call("getgr", "retry"))
               /\ pc' = [pc EXCEPT ![r] = "x_wait_sleep"]
               /\ UNCHANGED <<exc, thrown, raised, resp, rollback>>
  /\ UNCHANGED <<kind, user, form, uid, conn, tries, pushed, executed, outcomes,
                 mkdirs, token>>
  /\ UNCHANGED <<reservedUsers, reservedGroups, ldapPeople, ldapGroup,
                 principals, dirs, deleteToken, now>>
  /\ UNCHANGED extVars

deleteGroup(r) ==
  \/ DeleteGroupStart(r)
  \/ MemberConnect(r, "x_connect", "x_primary")
  \/ DeleteGroupPrimary(r)
  \/ DeleteGroupSearch(r)
  \/ DeleteGroupModify(r)
  \/ garbageCollectGroups(r)
  \/ DeleteGroupWaitFlush(r)
  \/ MemberWaitSleep(r, "x_wait_sleep", "x_wait_flush")

(***************************************************************************)
(* mkhomedird.py, touchHome: POST /user/<user> as the clients of the       *)
(* socket send it, several at a time.  The handler runs from the request   *)
(* to its await of copyDir, and from there to its end.                     *)
(***************************************************************************)
\* the POST requests of the model
Posts == {"p1", "p2"}

\* a request that has not been sent: where the handler stands, the user of
\* the path, the entry of config.DIRECTORIES it is at, and the answer
NoPost == [pc |-> "idle", name |-> <<>>, i |-> 0, resp |-> NoResp]

\* lines 93-112, the loop over config.DIRECTORIES from entry i on, up to
\* the next await of copyDir or to the return that ends the handler
RECURSIVE touchLoop(_, _, _)
touchLoop(i, name, ds) ==
  IF i > Len(DIRECTORIES)
  THEN [at |-> "return", i |-> i, code |-> 201, status |-> "ok", dirs |-> ds]
  ELSE LET d == DIRECTORIES[i] IN
       IF d.create = "no" THEN touchLoop(i + 1, name, ds)
       ELSE IF <<d.path, name>> \in ds
       THEN [at |-> "return", i |-> i, code |-> 409, status |-> "homedir_exists",
             dirs |-> ds]
       ELSE IF d.create = "skel"
       THEN [at |-> "copyDir", i |-> i, code |-> 0, status |-> "none",
             dirs |-> ds \cup {<<d.path, name>>}]
       ELSE touchLoop(i + 1, name, ds \cup {<<d.path, name>>})

\* where request p stands after the loop ran to t: suspended in copyDir,
\* or answered
After(p, name, t) ==
  IF t.at = "copyDir"
  THEN [pc |-> "copy", name |-> name, i |-> t.i, resp |-> NoResp]
  ELSE [pc |-> "done", name |-> name, i |-> t.i,
        resp |-> [code |-> t.code, status |-> t.status]]

\* a handler that does not look at the set running
TouchHomeStart_NoCheck(p) ==
  /\ post[p].pc = "idle"
  /\ \E name \in HomedNames :
       IF getUserByName(passwd, name) = {}
       THEN /\ post' = [post EXCEPT ![p] =
                         [pc |-> "done", name |-> name, i |-> 0,
                          resp |-> [code |-> 404, status |-> "user_not_found"]]]
            /\ running' = running \ {name}
            /\ UNCHANGED dirs
       ELSE LET t == touchLoop(1, name, dirs) IN
            /\ post' = [post EXCEPT ![p] = After(p, name, t)]
            /\ dirs' = t.dirs
            /\ running' = IF t.at = "copyDir" THEN running \cup {name}
                          ELSE running \ {name}
  /\ UNCHANGED <<reqVars, reservedUsers, reservedGroups, ldapPeople, ldapGroup,
                 passwd, group, principals, deleteToken, now>>
  /\ UNCHANGED <<memberVars, histVars, homed, authVars, hostVars>>

\* lines 73-110: the request arrives: a user in running is answered 202;
\* else the user joins running, is looked up, and the loop runs to its
\* first await; a return on the way leaves through the finally clause
TouchHomeStart(p) ==
  /\ post[p].pc = "idle"
  /\ \E name \in HomedNames :
       IF name \in running
       THEN /\ post' = [post EXCEPT ![p] =
                         [pc |-> "done", name |-> name, i |-> 0,
                          resp |-> [code |-> 202, status |-> "in_progress"]]]
            /\ UNCHANGED <<running, dirs>>
       ELSE IF getUserByName(passwd, name) = {}
       THEN /\ post' = [post EXCEPT ![p] =
                         [pc |-> "done", name |-> name, i |-> 0,
                          resp |-> [code |-> 404, status |-> "user_not_found"]]]
            /\ running' = (running \cup {name}) \ {name}
            /\ UNCHANGED dirs
       ELSE LET t == touchLoop(1, name, dirs) IN
            /\ post' = [post EXCEPT ![p] = After(p, name, t)]
            /\ dirs' = t.dirs
            /\ running' = IF t.at = "copyDir" THEN running \cup {name}
                          ELSE (running \cup {name}) \ {name}
  /\ UNCHANGED <<reqVars, reservedUsers, reservedGroups, ldapPeople, ldapGroup,
                 passwd, group, principals, deleteToken, now>>
  /\ UNCHANGED <<memberVars, histVars, homed, authVars, hostVars>>

\* lines 108-117: copyDir returns whether rsync succeeded; the loop goes on
\* to the next await or to the end of the handler
TouchHomeCopied(p) ==
  /\ post[p].pc = "copy"
  /\ \E copyOk \in BOOLEAN :
       LET name == post[p].name
           t == IF copyOk THEN touchLoop(post[p].i + 1, name, dirs)
                ELSE [at |-> "return", i |-> post[p].i, code |-> 500,
                      status |-> "copy_skeleton_failed", dirs |-> dirs]
       IN  /\ post' = [post EXCEPT ![p] = After(p, name, t)]
           /\ dirs' = t.dirs
           /\ running' = IF t.at = "copyDir" THEN running ELSE running \ {name}
  /\ UNCHANGED <<reqVars, reservedUsers, reservedGroups, ldapPeople, ldapGroup,
                 passwd, group, principals, deleteToken, now>>
  /\ UNCHANGED <<memberVars, histVars, homed, authVars, hostVars>>

\* the client goes away while rsync runs: the await raises CancelledError,
\* which leaves through the finally clause; nothing is answered
TouchHomeCancel(p) ==
  /\ post[p].pc = "copy"
  /\ post' = [post EXCEPT ![p] = [@ EXCEPT !.pc = "done"]]
  /\ running' = running \ {post[p].name}
  /\ UNCHANGED <<reqVars, envVars>>
  /\ UNCHANGED <<memberVars, histVars, homed, authVars, hostVars>>

(***************************************************************************)
(* gssapi/server.py, authorized: the SPNEGO decorator.                     *)
(***************************************************************************)
Connections == {"c1", "c2"}

\* the principals a client may hold a ticket of
GssPrincipals ==
  {AUTHORIZATION_CREATE \o <<"@", "REALM">>, UserName(MIN_UID) \o <<"@", "REALM">>}

\* the tokens of the mechanism: of a client, one that establishes the
\* context for a principal, one that asks for another round, and bytes
\* that are no token; of the server, its reply
NoChallenge == [kind |-> "none", name |-> <<>>]
ClientTokens ==
  {[kind |-> k, name |-> p] : k \in {"final", "continue"}, p \in GssPrincipals}
  \cup {[kind |-> "garbage", name |-> <<>>]}

\* base64: the text of some bytes and the bytes of a text
b64encode(bytes) == [b64 |-> bytes]
b64decode(str) == str.b64

\* the values of the Authorization header: none, another scheme, Negotiate
\* without a token, Negotiate with a token
AuthHeaders ==
  {<<>>, <<"Basic">>, <<"Negotiate">>}
  \cup {<<"Negotiate", b64encode(t)>> : t \in ClientTokens}

\* line 49: a connection without the attribute gss
NoContext ==
  [made |-> FALSE, complete |-> FALSE, initiator_name |-> <<>>, peer |-> <<>>]

\* lines 37-41: makeContext: a fresh accepting context
makeContext ==
  [made |-> TRUE, complete |-> FALSE, initiator_name |-> <<>>, peer |-> <<>>]

\* lines 57-58: www_authenticate.parse (authHeader).get ('Negotiate')
parseNegotiate(authHeader) ==
  IF Len(authHeader) = 2 /\ authHeader[1] = "Negotiate"
  THEN authHeader[2]
  ELSE NoChallenge

\* gss.step (token): the ways a step may end: GSSError, or the context
\* afterwards and the token to send back, if any.  Bytes that are no token,
\* and a token of another principal in the middle of a negotiation, are
\* errors; what a step does to an established context is up to the
\* mechanism: an error, or nothing.
step(ctx, tok) ==
  LET error == [error |-> TRUE, ctx |-> ctx, out |-> NoChallenge]
      reply == [kind |-> "reply", name |-> tok.name]
  IN  IF ctx.complete
      THEN {error, [error |-> FALSE, ctx |-> ctx, out |-> NoChallenge]}
      ELSE IF tok.kind = "garbage" \/ (ctx.peer # <<>> /\ ctx.peer # tok.name)
      THEN {error}
      ELSE IF tok.kind = "continue"
      THEN {[error |-> FALSE, ctx |-> [ctx EXCEPT !.peer = tok.name],
             out |-> reply]}
      ELSE {[error |-> FALSE,
             ctx |-> [ctx EXCEPT !.complete = TRUE, !.peer = tok.name,
                                 !.initiator_name = tok.name],
             out |-> o] : o \in {NoChallenge, reply}}

\* a decorator that is content with a context that exists
accepted_AnyContext(ctx) == ctx.made

\* line 74: if gss.complete
accepted(ctx) == ctx.complete

\* lines 68-72: the WWW-Authenticate header
wwwAuthenticate(nextChallenge) ==
  IF nextChallenge # NoChallenge
  THEN <<"Negotiate", b64encode(nextChallenge)>>
  ELSE <<"Negotiate">>

\* a decorator that goes on with the context whose step failed
Authorized_KeepContext ==
  /\ Len(served) < MaxServed
  /\ \E c \in Connections, authHeader \in AuthHeaders :
       LET ctx0 == IF ~gss[c].made THEN makeContext ELSE gss[c]
           challenge == parseNegotiate(authHeader)
           steps == IF authHeader # <<>> /\ challenge # NoChallenge
                    THEN step(ctx0, b64decode(challenge))
                    ELSE {[error |-> FALSE, ctx |-> ctx0, out |-> NoChallenge]}
       IN  \E o \in steps :
             LET ctx == o.ctx
                 nextChallenge == IF o.error THEN NoChallenge ELSE o.out
                 headers == wwwAuthenticate(nextChallenge)
                 \* for the history: how gss.step ended, if it was called
                 stepped == IF authHeader = <<>> \/ challenge = NoChallenge
                            THEN "none"
                            ELSE IF o.error THEN "GSSError" ELSE "ok"
             IN  /\ gss' = [gss EXCEPT ![c] = ctx]
                 /\ IF accepted(ctx)
                    THEN /\ handled' = Append(handled, ctx.initiator_name)
                         /\ \E returns \in BOOLEAN :
                              served' = Append(served,
                                IF returns
                                THEN [conn |-> c, code |-> 200, headers |-> headers,
                                      step |-> stepped]
                                ELSE [conn |-> c, code |-> 500, headers |-> <<>>,
                                      step |-> stepped])
                    ELSE /\ served' = Append(served,
                              [conn |-> c, code |-> 401, headers |-> headers,
                               step |-> stepped])
                         /\ UNCHANGED handled
  /\ UNCHANGED <<reqVars, envVars, memberVars, histVars, homed, hostVars,
                 homeVars>>

\* lines 45-81: decorated_function, one request on one connection; the
\* wrapped handler f is called, and returns or raises, or 401 is answered
Authorized ==
  /\ Len(served) < MaxServed
  /\ \E c \in Connections, authHeader \in AuthHeaders :
       LET ctx0 == IF ~gss[c].made THEN makeContext ELSE gss[c]
           challenge == parseNegotiate(authHeader)
           steps == IF authHeader # <<>> /\ challenge # NoChallenge
                    THEN step(ctx0, b64decode(challenge))
                    ELSE {[error |-> FALSE, ctx |-> ctx0, out |-> NoChallenge]}
       IN  \E o \in steps :
             LET ctx == IF o.error THEN makeContext ELSE o.ctx
                 nextChallenge == IF o.error THEN NoChallenge ELSE o.out
                 headers == wwwAuthenticate(nextChallenge)
                 \* for the history: how gss.step ended, if it was called
                 stepped == IF authHeader = <<>> \/ challenge = NoChallenge
                            THEN "none"
                            ELSE IF o.error THEN "GSSError" ELSE "ok"
             IN  /\ gss' = [gss EXCEPT ![c] = ctx]
                 /\ IF accepted(ctx)
                    THEN /\ handled' = Append(handled, ctx.initiator_name)
                         /\ \E returns \in BOOLEAN :
                              served' = Append(served,
                                IF returns
                                THEN [conn |-> c, code |-> 200, headers |-> headers,
                                      step |-> stepped]
                                ELSE [conn |-> c, code |-> 500, headers |-> <<>>,
                                      step |-> stepped])
                    ELSE /\ served' = Append(served,
                              [conn |-> c, code |-> 401, headers |-> headers,
                               step |-> stepped])
                         /\ UNCHANGED handled
  /\ UNCHANGED <<reqVars, envVars, memberVars, histVars, homed, hostVars,
                 homeVars>>

(***************************************************************************)
(* ktwkd.py: the orphan reaper.  One step of a scan visits one entry of    *)
(* /proc: it reads the status file, resolves the real uid and signals;     *)
(* between two steps processes start and exit and accounts come and go.    *)
(***************************************************************************)
\* the process ids of the host
Pids == {1, 2}

\* line 79 (1000 in the code): uids 0 and 1 lie below it, uid 2 does not
minuid == 2

\* a reaper that does not look at the uid
isOrphan_AnyUid(pw, u) == getUserByUid(pw, u) = {}

\* lines 85-88: the real uid is at least minuid and getUser raises KeyError
isOrphan(pw, u) == u >= minuid /\ getUserByUid(pw, u) = {}

\* lines 81-97: the loop of the reaper
ktwkd ==
  /\ \/ \* the sleep is over: os.listdir ('/proc')
        /\ ~listing.active
        /\ listing' = [active |-> TRUE, pids |-> {p \in Pids : proc[p] # None}]
        /\ UNCHANGED <<proc, signalled>>
     \/ \* the next entry: a process that is gone is passed over, an orphan
        \* is sent SIGKILL; the signal kills it, or os.kill raises
        \* PermissionError, or the process has just exited
        /\ listing.active
        /\ \E p \in listing.pids :
             /\ listing' = [listing EXCEPT !.pids = @ \ {p}]
             /\ IF proc[p] # None /\ isOrphan(passwd, proc[p])
                THEN /\ signalled' = signalled \cup
                          {[pid |-> p, uid |-> proc[p],
                            known |-> getUserByUid(passwd, proc[p]) # {}]}
                     /\ \E res \in {"ok", "PermissionError", "ProcessLookupError"} :
                          proc' = IF res = "PermissionError" THEN proc
                                  ELSE [proc EXCEPT ![p] = None]
                ELSE UNCHANGED <<proc, signalled>>
     \/ \* the listing is exhausted: asyncio.sleep (60)
        /\ listing.active
        /\ listing.pids = {}
        /\ listing' = [active |-> FALSE, pids |-> {}]
        /\ UNCHANGED <<proc, signalled>>
  /\ UNCHANGED <<reqVars, envVars, memberVars, histVars, homed, authVars,
                 homeVars>>

\* the host: a process starts under some real uid or exits, the name
\* service begins or ceases to resolve an account
Host ==
  /\ \/ /\ \E p \in Pids, u \in 0..(MAX_UID - 1) :
             /\ proc[p] = None
             /\ proc' = [proc EXCEPT ![p] = u]
        /\ UNCHANGED passwd
     \/ /\ \E p \in Pids :
             /\ proc[p] # None
             /\ proc' = [proc EXCEPT ![p] = None]
        /\ UNCHANGED passwd
     \/ /\ \E u \in UidRange :
             passwd' = IF Account(u) \in passwd THEN passwd \ {Account(u)}
                       ELSE passwd \cup {Account(u)}
        /\ UNCHANGED proc
  /\ UNCHANGED <<reservedUsers, reservedGroups, ldapPeople, ldapGroup, group,
                 principals, dirs, deleteToken, now>>
  /\ UNCHANGED <<reqVars, memberVars, histVars, homed, authVars, listing,
                 signalled, homeVars>>

(***************************************************************************)
(* The initial states: no request yet; the directory is empty, or holds    *)
(* one provisioned account, or holds what earlier failures and other       *)
(* administrators left in it.                                              *)
(***************************************************************************)
\* an account another tool put into the directory; the name service has
\* not seen it yet
Foreign == [name |-> <<"alice">>, uid |-> 2, gid |-> 2]

Worlds ==
  { \* an empty directory
    [ldapPeople |-> {}, ldapGroup |-> {}, passwd |-> SystemUsers,
     group |-> SystemGroups, principals |-> {}, dirs |-> {}],
    \* the account of uid 1, provisioned, and a group it owns
    [ldapPeople |-> {Account(1)},
     ldapGroup |-> {PrimaryGroup(1), NewGroup(MIN_GID, UserName(1))},
     passwd |-> SystemUsers \cup {Account(1)},
     group |-> SystemGroups \cup {PrimaryGroup(1), NewGroup(MIN_GID, UserName(1))},
     principals |-> {UserName(1)},
     dirs |-> {<<"home", UserName(1)>>, <<"scratch", UserName(1)>>}],
    \* leftovers: the primary group of uid 1 without its account, a foreign
    \* account with uid 2, a directory of the former owner of uid 2
    [ldapPeople |-> {Foreign}, ldapGroup |-> {PrimaryGroup(1)},
     passwd |-> SystemUsers, group |-> SystemGroups,
     principals |-> {}, dirs |-> {<<"scratch", UserName(2)>>}] }

\* no request yet, nothing reserved, no token issued
Quiet ==
  /\ pc = [r \in Requests |-> "idle"]
  /\ kind = [r \in Requests |-> "none"]
  /\ user = [r \in Requests |-> <<>>]
  /\ form = [r \in Requests |-> {}]
  /\ uid = [r \in Requests |-> None]
  /\ conn = [r \in Requests |-> "none"]
  /\ tries = [r \in Requests |-> 0]
  /\ rollback = [r \in Requests |-> <<>>]
  /\ exc = [r \in Requests |-> NoExc]
  /\ thrown = [r \in Requests |-> NoExc]
  /\ raised = [r \in Requests |-> NoExc]
  /\ resp = [r \in Requests |-> NoResp]
  /\ pushed = [r \in Requests |-> <<>>]
  /\ executed = [r \in Requests |-> <<>>]
  /\ outcomes = [r \in Requests |-> <<>>]
  /\ calls = [r \in Requests |-> <<>>]
  /\ mkdirs = [r \in Requests |-> {}]
  /\ token = [r \in Requests |-> NoToken]
  /\ modgroup = [r \in Requests |-> [name |-> <<>>, gid |-> None]]
  /\ moduser = [r \in Requests |-> <<>>]
  /\ results = [r \in Requests |-> {}]
  /\ gcFound = [r \in Requests |-> [todo |-> {}, gids |-> {}]]
  /\ prior = [r \in Requests |-> {}]
  /\ kadmin = [r \in Requests |-> "none"]
  /\ homed = NoRequest
  /\ gss = [c \in Connections |-> NoContext]
  /\ served = <<>>
  /\ handled = <<>>
  /\ proc = [p \in Pids |-> None]
  /\ listing = [active |-> FALSE, pids |-> {}]
  /\ signalled = {}
  /\ running = {}
  /\ post = [p \in Posts |-> NoPost]
  /\ deleteToken = {}
  /\ now = 0
  /\ reservedUsers = {}
  /\ reservedGroups = {}

\* the directory, the name service, the KDC and the directories of world w
InWorld(w) ==
  /\ ldapPeople = w.ldapPeople
  /\ ldapGroup = w.ldapGroup
  /\ passwd = w.passwd
  /\ group = w.group
  /\ principals = w.principals
  /\ dirs = w.dirs
  /\ world0 = w

Init == Quiet /\ \E w \in Worlds : InWorld(w)

\* a member of a group whose primary group it is: the entry an
\* administrator gave the gid of the group
Account2In(g) == [name |-> UserName(2), uid |-> 2, gid |-> g]

\* for the membership handlers: two accounts and the groups they share
MemberWorlds ==
  { \* both accounts in one group, the second account alone in another
    [ldapPeople |-> {Account(1), Account(2)},
     ldapGroup |-> {PrimaryGroup(1), PrimaryGroup(2),
                    [NewGroup(MIN_GID, UserName(1)) EXCEPT
                       !.memberUid = {UserName(1), UserName(2)}],
                    NewGroup(MIN_GID + 1, UserName(2))},
     passwd |-> SystemUsers \cup {Account(1), Account(2)},
     group |-> SystemGroups \cup
               {PrimaryGroup(1), PrimaryGroup(2),
                [NewGroup(MIN_GID, UserName(1)) EXCEPT
                   !.memberUid = {UserName(1), UserName(2)}],
                NewGroup(MIN_GID + 1, UserName(2))},
     principals |-> {UserName(1), UserName(2)},
     dirs |-> {<<"home", UserName(1)>>, <<"home", UserName(2)>>}],
    \* the first account alone in a group that is the primary group of the
    \* second
    [ldapPeople |-> {Account(1), Account2In(MIN_GID)},
     ldapGroup |-> {PrimaryGroup(1), NewGroup(MIN_GID, UserName(1))},
     passwd |-> SystemUsers \cup {Account(1), Account2In(MIN_GID)},
     group |-> SystemGroups \cup {PrimaryGroup(1), NewGroup(MIN_GID, UserName(1))},
     principals |-> {UserName(1), UserName(2)},
     dirs |-> {<<"home", UserName(1)>>, <<"home", UserName(2)>>}] }

InitMembers == Quiet /\ \E w \in MemberWorlds : InWorld(w)

(***************************************************************************)
(* The creating handlers: concurrent create-user and create-group          *)
(* requests.                                                               *)
(***************************************************************************)
AddUser(r) ==
  \/ AddUserStart(r)
  \/ AddUserConnect(r)
  \/ AddUserEntry(r)
  \/ AddUserGroup(r)
  \/ AddUserWaitFlush(r)
  \/ AddUserWaitSleep(r)
  \/ AddUserKerberos(r)
  \/ AddUserHomedir(r)

AddGroup(r) ==
  \/ AddGroupStart(r)
  \/ AddGroupConnect(r)
  \/ AddGroupEntry(r)
  \/ AddGroupWaitFlush(r)
  \/ AddGroupWaitSleep(r)

Next ==
  \E r \in Requests : AddUser(r) \/ AddGroup(r) \/ Cancel(r) \/ Unwind(r)

Spec == Init /\ [][Next]_vars

(***************************************************************************)
(* The deleting handler: concurrent delete-user requests while time        *)
(* passes.                                                                 *)
(***************************************************************************)
NextDelete == (\E r \in Requests : DeleteUser(r)) \/ Tick

SpecDelete == Init /\ [][NextDelete]_vars

(***************************************************************************)
(* The life of one account: a create-user request and a delete-user        *)
(* request.                                                                *)
(***************************************************************************)
NextLifecycle == AddUser("r1") \/ Unwind("r1") \/ DeleteUser("r2")

SpecLifecycle == Init /\ [][NextLifecycle]_vars

(***************************************************************************)
(* The homedir service: a delete-user request, and clients of the socket   *)
(* that send DELETE /user/<user> on their own, while time passes.          *)
(***************************************************************************)
NextHomed == DeleteUser("r1") \/ HomedDelete \/ Tick

SpecHomed == Init /\ [][NextHomed]_vars

(***************************************************************************)
(* Group membership: concurrent add-member and remove-member requests.     *)
(***************************************************************************)
NextMembers == \E r \in Requests : addUserToGroup(r) \/ deleteGroup(r)

SpecMembers == InitMembers /\ [][NextMembers]_vars

(***************************************************************************)
(* Garbage collection: the membership requests together with delete-user   *)
(* requests.                                                               *)
(***************************************************************************)
NextCollect ==
  \E r \in Requests : addUserToGroup(r) \/ deleteGroup(r) \/ DeleteUser(r)

SpecCollect == InitMembers /\ [][NextCollect]_vars

(***************************************************************************)
(* The SPNEGO decorator: requests on two connections.                      *)
(***************************************************************************)
SpecAuth == Init /\ [][Authorized]_vars

(***************************************************************************)
(* The orphan reaper on a host whose processes and accounts come and go.   *)
(***************************************************************************)
SpecReaper == Init /\ [][ktwkd \/ Host]_vars

(***************************************************************************)
(* The homedir service creating homes: POST requests of several clients    *)
(* while accounts begin and cease to resolve.                              *)
(***************************************************************************)
SpecHome ==
  Init /\ [][ \/ \E p \in Posts : \/ TouchHomeStart(p)
                                  \/ TouchHomeCopied(p)
                                  \/ TouchHomeCancel(p)
              \/ Host ]_vars

(***************************************************************************)
(* The rollback scope alone: one test handler.                             *)
(***************************************************************************)
NextRollback ==
  \/ DutStart("r1")
  \/ DutPush("r1")
  \/ DutRaise("r1")
  \/ DutReturn("r1")
  \/ Unwind("r1")

SpecRollback == Init /\ [][NextRollback]_vars

(***************************************************************************)
(* Claims about the rollback scope.                                        *)
(***************************************************************************)
\* a request whose handler raised and whose exit stack has finished
Unwound(r) == pc[r] = "done" /\ thrown[r] # NoExc

\* C1: when a handler wrapped by withRollback pushes compensations and
\* then raises, every pushed compensation runs exactly once, newest first,
\* and the exception the handler raised is the one that reaches the caller.
C1_RollbackNewestFirstAndReraise ==
  \A r \in Requests :
    Unwound(r) =>
      /\ executed[r] = Reverse(pushed[r])
      /\ raised[r] = thrown[r]

\* C2: when a handler wrapped by withRollback returns normally, none of the
\* compensations it pushed is executed, neither while it runs nor after it
\* has returned.
C2_NoCompensationOnSuccess ==
  \A r \in Requests : thrown[r] = NoExc => executed[r] = <<>>

\* a handler that pushed an async and a sync compensation has returned
C2_Witness ==
  \E r \in Requests :
    /\ pc[r] = "done"
    /\ thrown[r] = NoExc
    /\ \E i, j \in 1..Len(pushed[r]) : pushed[r][i].async /\ ~pushed[r][j].async

(***************************************************************************)
(* Claims about create-user and the allocator.                             *)
(***************************************************************************)
\* request r made the call op and it ended with res
Did(r, op, res) == Call(op, res) \in Range(calls[r])

\* the call op of request r that ended with res came before its i-th call
Before(r, i, op, res) == \E j \in 1..(i - 1) : calls[r][j] = Call(op, res)

\* no other request added an account of the same uid
OnlyCreator(r) ==
  \A s \in Requests \ {r} :
    ~(kind[s] = "addUser" /\ uid[s] = uid[r] /\ Did(s, "ldap.add_user", "ok"))

\* while the exit stack of r ran, the directory, the KDC and the flush
\* service did what they were asked
CollaboratorsUp(r) ==
  \A i \in 1..Len(outcomes[r]) :
    outcomes[r][i].type \notin {"LDAPError", "KAdmException", "ServerError"}

\* C3: when create-user fails at any step after its LDAP user entry was
\* added, then once the handler has returned the user entry, the
\* primary-group entry and the Kerberos principal this request created no
\* longer exist (stated here even under healthy collaborators).
C3_FailedCreateLeavesNoEntries ==
  \A r \in Requests :
    ( /\ kind[r] = "addUser"
      /\ Unwound(r)
      /\ Did(r, "ldap.add_user", "ok")
      /\ OnlyCreator(r)
      /\ CollaboratorsUp(r) )
    =>
      /\ \A e \in ldapPeople : e.name # Login(r)
      /\ Did(r, "ldap.add_group", "ok") => \A e \in ldapGroup : e.name # Login(r)
      /\ Did(r, "kadm.addPrincipal", "ok") => Login(r) \notin principals

\* C4: when create-user fails in the homedir step, no directory the homedir
\* service made for that user during this request remains.
C4_FailedHomedirLeavesNoDirectory ==
  \A r \in Requests :
    ( /\ kind[r] = "addUser"
      /\ Unwound(r)
      /\ thrown[r].status \in {"mkhomedir_failed", "mkhomedird_connect"} )
    => mkdirs[r] \cap dirs = {}

\* C5: no two requests in flight hold the same reserved uid, and no two
\* hold the same reserved gid, whatever the interleaving.
C5_ReservationsDisjoint ==
  \A r, s \in Requests :
    r # s =>
      /\ (InUserScope(r) /\ InUserScope(s)) => uid[r] # uid[s]
      /\ (InGroupScope(r) /\ InGroupScope(s)) => uid[r] # uid[s]

\* two create-user requests hold a reservation at the same time
C5_Witness ==
  \E r, s \in Requests :
    /\ r # s
    /\ InUserScope(r) /\ InUserScope(s)
    /\ {uid[r], uid[s]} \subseteq reservedUsers

\* request r had a well-formed body, found a free uid, was not cancelled,
\* every collaborator answered it without a failure of its own, the name
\* service caught up in time, and no group, foreign account or directory
\* left over from earlier stood in its way
Undisturbed(r) ==
  /\ thrown[r].type \notin {"TypeError", "CancelledError", "LDAPError",
                            "AssertionError"}
  /\ thrown[r].status \notin {"uid", "flush_failed", "nscdflushd_connect",
                              "user_add_failed", "kerberos_failed",
                              "mkhomedird_connect", "mkhomedir_failed",
                              "group_exists", "user_mismatch"}
  /\ CollaboratorsUp(r)

\* C6: two create-user requests that run concurrently both succeed with
\* 201 and are given different login names and different uids (stated here
\* even for well-formed, authorized requests under healthy collaborators).
C6_ConcurrentCreatesBothSucceed ==
  \A r, s \in Requests :
    ( /\ r # s
      /\ kind[r] = "addUser" /\ kind[s] = "addUser"
      /\ pc[r] = "done" /\ pc[s] = "done"
      /\ mayCreate(user[r]) /\ mayCreate(user[s])
      /\ Undisturbed(r) /\ Undisturbed(s) )
    =>
      /\ resp[r].code = 201 /\ resp[s].code = 201
      /\ uid[r] # uid[s]
      /\ Login(r) # Login(s)

\* C7: every entry of reservedUsers and of reservedGroups belongs to
\* exactly one request that stands inside its allocator scope, so it is gone
\* once that request has left the scope by success, error or cancellation;
\* with no request in flight both sets are empty, None included.
C7_ReservationsOwnedAndReleased ==
  /\ \A x \in reservedUsers :
       Cardinality({r \in Requests : InUserScope(r) /\ uid[r] = x}) = 1
  /\ \A x \in reservedGroups :
       Cardinality({r \in Requests : InGroupScope(r) /\ uid[r] = x}) = 1
  /\ \A r \in Requests :
       /\ InUserScope(r) => uid[r] \in reservedUsers
       /\ InGroupScope(r) => uid[r] \in reservedGroups
  /\ (\A r \in Requests : pc[r] \in {"idle", "done"}) =>
       reservedUsers = {} /\ reservedGroups = {}

\* no request is in flight any more: one was cancelled inside the scope of
\* the user allocator, the other found no free uid and reserved None
C7_Witness ==
  /\ \A r \in Requests : pc[r] = "done"
  /\ \E r \in Requests :
       /\ kind[r] = "addUser"
       /\ thrown[r].type = "CancelledError"
       /\ uid[r] # None
       /\ ~Did(r, "ldap.close", "ok")
  /\ \E r \in Requests : kind[r] = "addUser" /\ thrown[r].status = "uid"
  /\ reservedUsers = {} /\ reservedGroups = {}

\* C8: create-user calls kadm.addPrincipal only after both LDAP adds have
\* succeeded and the consistency wait has resolved, and posts to the
\* homedir service only after addPrincipal has succeeded; when the first
\* LDAP add is rejected, no principal is created and nothing is posted.
C8_CreateUserStepOrder ==
  \A r \in Requests :
    kind[r] = "addUser" =>
      \A i \in 1..Len(calls[r]) :
        /\ calls[r][i].op = "kadm.addPrincipal" =>
             /\ Before(r, i, "ldap.add_user", "ok")
             /\ Before(r, i, "ldap.add_group", "ok")
             /\ Before(r, i, "getUser", "ok")
        /\ calls[r][i].op = "homedir.post" =>
             Before(r, i, "kadm.addPrincipal", "ok")
        /\ (calls[r][i].op = "ldap.add_user" /\ calls[r][i].res # "ok") =>
             /\ \A j \in 1..Len(calls[r]) :
                  calls[r][j].op \notin {"kadm.addPrincipal", "homedir.post"}
             /\ mkdirs[r] = {}
             /\ pc[r] = "done" => Login(r) \notin principals \/ ~OnlyCreator(r)

\* one request went through all steps and was answered 201, the other had
\* its first LDAP add rejected
C8_Witness ==
  \E r, s \in Requests :
    /\ Did(r, "homedir.post", "ok") /\ resp[r].code = 201
    /\ Did(s, "ldap.add_user", "exists") /\ pc[s] = "done"

\* C9: a create-user request whose principal has a local part other than
\* AUTHORIZATION_CREATE is answered 403 and has no side effect: no uid is
\* reserved, no LDAP connection is opened, and the directory, the name
\* service, the KDC and the homedir service are left alone.
C9_UnauthorizedCreateHasNoEffect ==
  [][ \A r \in Requests :
        ( /\ pc[r] = "idle"
          /\ kind'[r] = "addUser"
          /\ LocalPart(user'[r]) # AUTHORIZATION_CREATE )
        =>
          /\ pc'[r] = "done"
          /\ resp'[r] = [code |-> 403, status |-> "Forbidden"]
          /\ uid'[r] = None
          /\ conn'[r] = "none"
          /\ calls'[r] = <<>>
          /\ pushed'[r] = <<>>
          /\ UNCHANGED envVars ]_vars

\* a principal of a realm named like the authorized account was refused
\* while the other request held a reservation
C9_Witness ==
  \E r, s \in Requests :
    /\ kind[r] = "addUser"
    /\ user[r] = <<"other", "@", "creator">>
    /\ resp[r].code = 403
    /\ InUserScope(s)

(***************************************************************************)
(* Claims about delete-user.                                               *)
(***************************************************************************)
\* C10: a delete-user request whose local part does not resolve is
\* answered 404 user_not_found, one whose uid lies outside
\* MIN_UID <= uid < MAX_UID is answered 403 unauthorized, and in both cases
\* nothing is asked of the KDC, the homedir service, the directory or the
\* flush service.
C10_DeleteUserRefusals ==
  [][ \A r \in Requests :
        (pc[r] = "idle" /\ kind'[r] = "deleteUser") =>
          LET res == getUserByName(passwd, LocalPart(user'[r]))
              refused(code, status) ==
                /\ pc'[r] = "done"
                /\ resp'[r] = [code |-> code, status |-> status]
                /\ calls'[r] = <<>>
                /\ conn'[r] = "none"
                /\ UNCHANGED envVars
          IN  /\ res = {} => refused(404, "user_not_found")
              /\ (\E e \in res : e.uid < MIN_UID \/ e.uid >= MAX_UID) =>
                   refused(403, "unauthorized") ]_vars

\* one request named an unknown user, the other the system account root
C10_Witness ==
  \E r, s \in Requests :
    /\ kind[r] = "deleteUser" /\ kind[s] = "deleteUser"
    /\ resp[r] = [code |-> 404, status |-> "user_not_found"]
    /\ user[s] = <<"root", "@", "REALM">>
    /\ resp[s] = [code |-> 403, status |-> "unauthorized"]

(***************************************************************************)
(* Claims about retrying and repeating delete-user.                        *)
(***************************************************************************)
\* every collaborator request r called did what it was asked
Healthy(r) ==
  \A i \in 1..Len(calls[r]) :
    calls[r][i].res \in {"ok", "again", "KeyError", "NoSuchObjectError"}

\* request s is a delete-user for the account of request r, begun after r
\* was answered
Repeats(s, r) ==
  /\ kind[r] = "deleteUser"
  /\ kind[s] = "deleteUser"
  /\ user[s] = user[r]
  /\ r \in prior[s]

\* the directories the homedir service still holds for a name
DirsOf(name) == {d \in dirs : d[2] = name}

\* C11: when a delete-user request fails at a step after it deleted the
\* Kerberos principal, the same request repeated afterwards, with every
\* collaborator doing what it is asked, is answered 200 and the directories
\* of the account are removed.
C11_FailedDeleteUserIsRetriable ==
  \A r \in Requests : \A s \in Requests :
    ( /\ Repeats(s, r)
      /\ Did(r, "kadm.deletePrincipal", "ok")
      /\ resp[r].code = 500
      /\ pc[s] = "done"
      /\ Healthy(s) )
    => ( /\ resp[s] = [code |-> 200, status |-> "ok"]
         /\ DirsOf(Target(s)) = {} )

\* C12: a delete-user request for an account, begun after a delete-user
\* request for the same account was answered 200, is answered 404
\* user_not_found at once: it takes no step and is never answered 500.
C12_DeleteAfterDeleteIsNotFound ==
  \A r \in Requests : \A s \in Requests :
    (Repeats(s, r) /\ resp[r] = [code |-> 200, status |-> "ok"])
    => ( /\ pc[s] = "done"
         /\ resp[s] = [code |-> 404, status |-> "user_not_found"]
         /\ calls[s] = <<>> )

\* the second delete-user of a deleted account has been answered
C12_Witness ==
  \E r \in Requests : \E s \in Requests :
    /\ Repeats(s, r)
    /\ resp[r] = [code |-> 200, status |-> "ok"]
    /\ Did(r, "ldap.delete_user", "ok")
    /\ pc[s] = "done"

(***************************************************************************)
(* Claims about create-user followed by delete-user.                       *)
(***************************************************************************)
\* request r1 created an account and request r2, begun afterwards, deleted
\* it; both were answered with success
CreatedThenDeleted ==
  /\ kind["r1"] = "addUser"
  /\ resp["r1"].code = 201
  /\ kind["r2"] = "deleteUser"
  /\ "r1" \in prior["r2"]
  /\ Target("r2") = Login("r1")
  /\ resp["r2"] = [code |-> 200, status |-> "ok"]

\* C13: after a successful create-user and a successful delete-user of the
\* created account the LDAP people entries, the LDAP group entries, the
\* Kerberos principals and the directories are those from before the
\* create, and both reservation sets are empty as before.
C13_CreateThenDeleteRestores ==
  CreatedThenDeleted
  => ( /\ ldapPeople = world0.ldapPeople
       /\ ldapGroup = world0.ldapGroup
       /\ principals = world0.principals
       /\ dirs = world0.dirs
       /\ reservedUsers = {}
       /\ reservedGroups = {} )

(***************************************************************************)
(* Claims about the homedir service.                                       *)
(***************************************************************************)
\* the tokens the service issued for a name
IssuedFor(name, tok) ==
  {t \in deleteToken : t.token = tok /\ t.userdata.name = name}

\* C14: a DELETE /user/<user> with a token removes directories only when
\* the token was issued before by a DELETE without a token, for the name in
\* the path, not more than the lifetime of a token ago, and the name does
\* not resolve any more; then it removes directories of that name only.
\* Otherwise nothing is removed and the answer is 403: token_invalid for an
\* unknown token or another name, else token_expired for an old token, else
\* user_exists.
C14_DeleteHomeNeedsValidToken ==
  [][ /\ (dirs' # dirs) =>
           \E t \in deleteToken :
             /\ now - t.date <= TokenLifetime
             /\ getUserByName(passwd, t.userdata.name) = {}
             /\ dirs' \subseteq dirs
             /\ dirs \ dirs' \subseteq DirsOf(t.userdata.name)
      /\ (homed' # homed /\ homed'.token # NoToken) =>
           LET name == homed'.name
               known == IssuedFor(name, homed'.token)
           IN  IF known = {}
               THEN /\ homed'.code = 403 /\ homed'.status = "token_invalid"
                    /\ dirs' = dirs
               ELSE IF \A t \in known : now - t.date > TokenLifetime
               THEN /\ homed'.code = 403 /\ homed'.status = "token_expired"
                    /\ dirs' = dirs
               ELSE IF getUserByName(passwd, name) # {}
               THEN /\ homed'.code = 403 /\ homed'.status = "user_exists"
                    /\ dirs' = dirs
               ELSE /\ homed'.code = 200 /\ homed'.status = "ok"
                    /\ dirs' \subseteq dirs
                    /\ dirs \ dirs' \subseteq DirsOf(name) ]_vars

\* directories have been removed, and a client that sent the token of one
\* name with another name in the path has been refused
C14_Witness ==
  /\ homed.status = "token_invalid"
  /\ \E t \in deleteToken : t.token = homed.token
  /\ dirs # world0.dirs

(***************************************************************************)
(* Claims about group membership.                                          *)
(***************************************************************************)
\* request s asks to add the user to the group that request r, answered
\* 200 before s began, asked to add to it
AddsAgain(s, r) ==
  /\ kind[r] = "addUserToGroup"
  /\ kind[s] = "addUserToGroup"
  /\ r \in prior[s]
  /\ resp[r] = [code |-> 200, status |-> "ok"]
  /\ modgroup[s].name = modgroup[r].name
  /\ moduser[s] = moduser[r]

\* C15: a second add-member request for the same group and user, made
\* after the first was answered 200, changes no LDAP group entry at any of
\* its steps and sends no modification; the user stays a member; and when
\* the request has passed its checks and every collaborator did what it was
\* asked, it is answered 200.
C15_AddMemberTwiceIsNoOp ==
  [][ \A r \in Requests : \A s \in Requests :
        AddsAgain(s, r)' =>
          /\ ldapGroup' = ldapGroup
          /\ pc'[s] # "a_modify"
          /\ \A g \in ldapGroup' :
               g.name = modgroup'[s].name => moduser'[s] \in g.memberUid
          /\ (pc'[s] = "done" /\ calls'[s] # <<>> /\ Healthy(s)')
             => resp'[s] = [code |-> 200, status |-> "ok"] ]_vars

\* the first request added the user, the second was answered 200
C15_Witness ==
  \E r \in Requests : \E s \in Requests :
    /\ AddsAgain(s, r)
    /\ Did(r, "ldap.modify", "ok")
    /\ pc[s] = "done"
    /\ resp[s] = [code |-> 200, status |-> "ok"]

PrimaryOfSomeone(r) ==
  /\ kind[r] = "deleteGroup"
  /\ ldapPeople = world0.ldapPeople
  /\ \E e \in ldapPeople : e.gid = modgroup[r].gid

\* C17: a remove-member request for a group whose gid is the gidNumber of
\* some entry below LDAP_BASE_PEOPLE never modifies the group, and once it
\* has searched for such entries it is answered 403 primary_group.
C17_PrimaryGroupRefused ==
  \A r \in Requests :
    PrimaryOfSomeone(r) =>
      /\ ~Did(r, "ldap.modify", "ok")
      /\ (\E i \in 1..Len(calls[r]) :
            calls[r][i].op = "ldap.search_primary" /\ calls[r][i].res # "error")
         => resp[r] = [code |-> 403, status |-> "primary_group"]

\* C18: a remove-member request by a user who resolves and who, when
\* getLdapGroup answers, is not among the memberUid of the group entry (or
\* the entry has no memberUid) is answered 404 not_a_member; it sends no
\* modification, does not start garbage collection and changes no entry.
C18_RemoveByNonMemberNotFound ==
  [][ \A r \in Requests :
        ( /\ pc[r] = "x_search"
          /\ pc'[r] # "x_search"
          /\ calls'[r][Len(calls'[r])] = Call("ldap.search", "ok")
          /\ \A g \in getLdapGroup(modgroup[r].name) : user[r] \notin g.memberUid )
        => /\ pc'[r] = "done"
           /\ resp'[r] = [code |-> 404, status |-> "not_a_member"]
           /\ ~\E i \in 1..Len(calls'[r]) :
                 calls'[r][i].op \in {"ldap.modify", "ldap.gc", "ldap.delete_empty"}
           /\ ldapGroup' = ldapGroup
           /\ ldapPeople' = ldapPeople ]_vars

\* getLdapGroup answered an entry that does not list the user, and the
\* request has been answered 404 not_a_member
C18_Witness ==
  \E r \in Requests :
    /\ kind[r] = "deleteGroup"
    /\ Did(r, "ldap.search", "ok")
    /\ resp[r] = [code |-> 404, status |-> "not_a_member"]

(***************************************************************************)
(* Claims about the garbage collection of groups.                          *)
(***************************************************************************)
\* no request is in flight, and every remove-member and delete-user
\* request that was made has been answered 200
AllRemovalsSucceeded ==
  /\ \A r \in Requests : pc[r] \in {"idle", "done"}
  /\ \A r \in Requests :
       kind[r] \in {"deleteGroup", "deleteUser"}
       => resp[r] = [code |-> 200, status |-> "ok"]

\* the groups of MIN_GID <= gid < MAX_GID without a member
EmptyManagedGroups ==
  {g \in ldapGroup : MIN_GID <= g.gid /\ g.gid < MAX_GID /\ g.memberUid = {}}

\* C19: whenever no request is in flight and every remove-member and
\* delete-user request made so far was answered 200, the directory holds no
\* group with a gid in MIN_GID <= gid < MAX_GID and without a member,
\* however the steps of the requests interleaved.
C19_NoEmptyGroupAtRest ==
  AllRemovalsSucceeded => EmptyManagedGroups = {}

\* a remove-member request and a delete-user request overlapped, both were
\* answered 200, and a group that lost its last member is gone
C19_Witness ==
  \E r \in Requests : \E s \in Requests :
    /\ AllRemovalsSucceeded
    /\ kind[r] = "deleteGroup"
    /\ kind[s] = "deleteUser"
    /\ r \notin prior[s]
    /\ s \notin prior[r]
    /\ \E g \in world0.ldapGroup :
         /\ MIN_GID <= g.gid /\ g.gid < MAX_GID
         /\ ~\E h \in ldapGroup : h.name = g.name

C21_FailedCompensationDoesNotStopUnwind ==
  \A r \in Requests :
    /\ Len(executed[r]) <= Len(pushed[r])
    /\ executed[r] = SubSeq(Reverse(pushed[r]), 1, Len(executed[r]))
    /\ Len(outcomes[r]) = Len(executed[r])
    /\ Unwound(r) => Len(executed[r]) = Len(pushed[r])

\* the newest of three compensations raised, so did the second, and the
\* oldest ran all the same
C21_Witness ==
  \E r \in Requests :
    /\ Unwound(r)
    /\ Len(pushed[r]) = 3
    /\ outcomes[r][1] # NoExc
    /\ outcomes[r][2] # NoExc
    /\ outcomes[r][3] = NoExc
    /\ executed[r] = Reverse(pushed[r])

(***************************************************************************)
(* Claims about the error kinds.                                           *)
(***************************************************************************)
\* the closed set of error kinds, each with its HTTP status code;
\* mkhomedir_* stands for every status of the code that begins with
\* mkhomedir, and not_a_member is taken with the code of the set as well as
\* with the 404 of the table of endpoints
ErrorKinds ==
  { <<"user_not_found", 404>>, <<"user_exists", 500>>, <<"group_exists", 500>>,
    <<"unauthorized", 403>>, <<"not_a_member", 403>>, <<"not_a_member", 404>>,
    <<"primary_group", 403>>, <<"kerberos_failed", 500>>,
    <<"nscdflushd_connect", 500>>, <<"flush_failed", 500>>,
    <<"user_mismatch", 500>>, <<"user_add_failed", 500>>,
    <<"resolve_timeout", 500>>, <<"uid", 500>>, <<"gid", 500>>,
    <<"username", 500>>, <<"groupname", 500>>, <<"token_invalid", 403>>,
    <<"token_expired", 403>>, <<"in_progress", 202>> }
  \cup
  { <<s, 500>> : s \in {"mkhomedir_failed", "mkhomedird_connect",
                        "mkhomedird_token", "mkhomedird_connect_token",
                        "mkhomedir_delete", "mkhomedird_connect_delete",
                        "mkhomedir_group_delete"} }

\* C22: every error response produced by the endpoints carries a status
\* string from the closed set of error kinds, with the HTTP status code the
\* set assigns to it (stated here even without the responses 500 bug that
\* answer an unknown exception).
C22_ErrorKindsAreClosed ==
  \A r \in Requests :
    (pc[r] = "done" /\ resp[r].code >= 400 /\ resp[r].status # "bug")
    => <<resp[r].status, resp[r].code>> \in ErrorKinds

(***************************************************************************)
(* Claims about the login name.                                            *)
(***************************************************************************)
LowerCase ==
  {"a", "b", "c", "d", "e", "f", "g", "h", "i", "j", "k", "l", "m", "n", "o",
   "p", "q", "r", "s", "t", "u", "v", "w", "x", "y", "z"}
Digit == {"0", "1", "2", "3", "4", "5", "6", "7", "8", "9"}

\* cs matches [a-z][a-z0-9]{2,15}
LoginSyntax(cs) ==
  /\ Len(cs) \in 3..16
  /\ cs[1] \in LowerCase
  /\ \A i \in 1..Len(cs) : cs[i] \in LowerCase \cup Digit

\* C23: every login name returned by a successful create-user matches
\* [a-z][a-z0-9]{2,15}: it starts with a lowercase letter, is 3 to 16
\* characters long and contains only lowercase letters and digits.
C23_LoginNameSyntax ==
  \A r \in Requests :
    (kind[r] = "addUser" /\ resp[r].code = 201) => LoginSyntax(Chars(Login(r)))

(***************************************************************************)
(* Claims about the orphan reaper.                                         *)
(***************************************************************************)
\* C24: the orphan reaper sends SIGKILL only to a process whose real uid
\* is at least minuid and whose real uid failed to resolve via the name
\* service in the same scan; a process with a real uid below minuid, or
\* whose uid resolves, is never signalled, in any scan.
C24_ReaperSignalsOnlyOrphans ==
  [][ \A p \in Pids :
        LET sent == signalled' \ signalled IN
        /\ \A k \in sent : k.pid \in listing.pids /\ k.uid = proc[k.pid]
        /\ (\E k \in sent : k.pid = p) =>
             /\ proc[p] >= minuid
             /\ getUserByUid(passwd, proc[p]) = {}
        /\ (proc[p] # None /\ (proc[p] < minuid \/ getUserByUid(passwd, proc[p]) # {}))
             => /\ proc'[p] = proc[p] \/ listing' = listing
                /\ ~ \E k \in sent : k.pid = p ]_vars

\* a scan is over in which an orphan was signalled while a process below
\* minuid whose uid does not resolve, started before the scan, is still
\* there
C24_Witness ==
  /\ listing.active
  /\ listing.pids = {}
  /\ \E k \in signalled : k.pid = 1
  /\ proc[2] = 1
  /\ getUserByUid(passwd, 1) = {}

(***************************************************************************)
(* Claims about the life of a reservation and the order of the unwind.     *)
(***************************************************************************)
\* request r has been given an identifier and has not been answered yet
InFlightWith(r) ==
  /\ kind[r] \in {"addUser", "addGroup"}
  /\ uid[r] # None
  /\ pc[r] \notin {"idle", "done"}

\* C25: the uid reserved by a create-user request (and the gid reserved by
\* a create-group request) stays in the reservation set from the moment
\* the allocator yields it until the handler returns, i.e. also throughout
\* the consistency wait, the Kerberos step and the homedir step.
C25_ReservationHeldUntilReturn ==
  \A r \in Requests :
    InFlightWith(r) =>
      /\ kind[r] = "addUser" => uid[r] \in reservedUsers
      /\ kind[r] = "addGroup" => uid[r] \in reservedGroups

\* the position in what request r has run of the compensation fn, 0 when
\* it has not run
RanAt(r, fn) ==
  IF \E i \in 1..Len(executed[r]) : executed[r][i].fn = fn
  THEN CHOOSE i \in 1..Len(executed[r]) : executed[r][i].fn = fn
  ELSE 0

\* C26, as stated: when create-user unwinds after its LDAP user entry was
\* added, the cache-flush compensation runs before the compensation that
\* deletes the LDAP user entry.
C26_FlushRunsBeforeDelete ==
  \A r \in Requests :
    (kind[r] = "addUser" /\ RanAt(r, "people.delete") > 0) =>
      /\ RanAt(r, "flushUserCache") > 0
      /\ RanAt(r, "flushUserCache") < RanAt(r, "people.delete")

\* C26, amended: when create-user unwinds after its LDAP user entry was
\* added, the compensation that deletes the LDAP user entry runs before
\* the cache-flush compensation, which is the last to run; both run once
\* the unwind is over.
C26_DeleteRunsBeforeFlush ==
  \A r \in Requests :
    kind[r] = "addUser" =>
      /\ RanAt(r, "flushUserCache") > 0 =>
           /\ RanAt(r, "people.delete") > 0
           /\ RanAt(r, "people.delete") < RanAt(r, "flushUserCache")
           /\ RanAt(r, "flushUserCache") = Len(pushed[r])
      /\ (Unwound(r) /\ Did(r, "ldap.add_user", "ok")) =>
           RanAt(r, "flushUserCache") > 0

\* a create-user request failed after Kerberos and ran its four
\* compensations: the principal, the group entry, the user entry, the flush
C26_Witness ==
  \E r \in Requests :
    /\ kind[r] = "addUser"
    /\ Unwound(r)
    /\ Len(executed[r]) = 4
    /\ RanAt(r, "people.delete") = 3
    /\ RanAt(r, "flushUserCache") = 4

(***************************************************************************)
(* Claims about cancellation.                                              *)
(***************************************************************************)
\* request r was cancelled while it was suspended
Cancelled(r) == thrown[r].type = "CancelledError"

\* C27: if a create-user or create-group request is cancelled at any
\* suspension point (LDAP call, cache flush, sleep of the consistency wait,
\* Kerberos subprocess, homedir call), every compensation pushed so far
\* runs in LIFO order and the request's reservation is removed from the
\* reservation set: what is still reserved belongs to another request.
C27_CancellationUnwindsAndReleases ==
  \A r \in Requests :
    Cancelled(r) =>
      /\ pc[r] \in {"unwind", "done"}
      /\ executed[r] = SubSeq(Reverse(pushed[r]), 1, Len(executed[r]))
      /\ pc[r] = "done" => executed[r] = Reverse(pushed[r])
      /\ \A x \in reservedUsers :
           \E s \in Requests \ {r} : InUserScope(s) /\ uid[s] = x
      /\ \A x \in reservedGroups :
           \E s \in Requests \ {r} : InGroupScope(s) /\ uid[s] = x

\* a create-user request was cancelled in its homedir call and ran its four
\* compensations, a create-group request was cancelled while it held its
\* reservation
C27_Witness ==
  \E r, s \in Requests :
    /\ kind[r] = "addUser" /\ Cancelled(r) /\ pc[r] = "done"
    /\ Len(pushed[r]) = 4
    /\ executed[r] = Reverse(pushed[r])
    /\ kind[s] = "addGroup" /\ Cancelled(s) /\ pc[s] = "done"
    /\ Did(s, "ldap.connect", "ok")
    /\ pushed[s] = <<>>
    /\ reservedGroups = {}

(***************************************************************************)
(* Claims about the consistency wait of create-user.                       *)
(***************************************************************************)
\* the calls of request r to op, by position
CallsOf(r, op) == {i \in 1..Len(calls[r]) : calls[r][i].op = op}

\* what the consistency wait of request r came to: the result of its last
\* pair of lookups, "none" before the first
LastLookup(r) ==
  IF CallsOf(r, "getUser") = {} THEN "none"
  ELSE calls[r][CHOOSE i \in CallsOf(r, "getUser") :
                  \A j \in CallsOf(r, "getUser") : j <= i].res

\* the consistency wait of request r ended with the error status: that is
\* what the client is answered, with 500, after the rollback has run
\* (stated here even under healthy collaborators)
WaitFailedWith(r, status) ==
  /\ pc[r] \in {"unwind", "done"}
  /\ thrown[r] = ServerError(status)
  /\ (pc[r] = "done" /\ CollaboratorsUp(r)) =>
       /\ resp[r] = [code |-> 500, status |-> status]
       /\ executed[r] = Reverse(pushed[r])

\* C28: the consistency wait of create-user runs at most WaitIters (60)
\* iterations, each one flushing the cache first and then resolving the
\* new account by name and by uid; it proceeds only on an iteration where
\* both resolve and agree, fails at once with 500 user_mismatch when both
\* resolve and differ, and fails with 500 user_add_failed (followed by
\* rollback) when none of the iterations resolves both.
C28_ConsistencyWait ==
  \A r \in Requests :
    kind[r] = "addUser" =>
      /\ Cardinality(CallsOf(r, "flush")) <= WaitIters
      /\ \A i \in CallsOf(r, "getUser") : calls[r][i - 1] = Call("flush", "ok")
      /\ \A i \in CallsOf(r, "kadm.addPrincipal") :
           calls[r][i - 1] = Call("getUser", "ok")
      /\ LastLookup(r) = "mismatch" => WaitFailedWith(r, "user_mismatch")
      /\ ( /\ LastLookup(r) = "KeyError"
           /\ Cardinality(CallsOf(r, "getUser")) = WaitIters
           /\ pc[r] # "wait_sleep" )
         => WaitFailedWith(r, "user_add_failed")

(***************************************************************************)
(* Claims about the order of the steps of delete-user.                     *)
(***************************************************************************)
\* the calls by which delete-user changes the directory
LdapDeletions ==
  {"ldap.delete_user", "ldap.delete_group", "ldap.modify", "ldap.delete_empty"}

\* the i-th call of request r is its token-bearing DELETE /user/<user>
TokenBearing(r, i) ==
  /\ calls[r][i].op = "homedir.delete"
  /\ Before(r, i, "homedir.delete", "again")

\* C29: in delete-user the Kerberos principal is deleted before the
\* homedir token is requested, the token is requested before any LDAP
\* entry is deleted, and the token-bearing homedir DELETE is sent only
\* after the LDAP deletions, the group garbage collection and one cache
\* flush; if the token-less homedir DELETE answers anything other than
\* again, the request ends with a 500 and no LDAP entry has been deleted.
C29_DeleteUserStepOrder ==
  \A r \in Requests :
    kind[r] = "deleteUser" =>
      \A i \in 1..Len(calls[r]) :
        /\ calls[r][i].op = "kadm.deletePrincipal" =>
             \A j \in CallsOf(r, "homedir.delete") : i < j
        /\ calls[r][i].op = "homedir.delete" =>
             \/ Before(r, i, "kadm.getPrincipal", "KeyError")
             \/ Before(r, i, "kadm.deletePrincipal", "ok")
        /\ calls[r][i].op \in LdapDeletions \cup {"ldap.connect"} =>
             Before(r, i, "homedir.delete", "again")
        /\ TokenBearing(r, i) =>
             /\ \E j \in 1..(i - 1) :
                  /\ calls[r][j].op = "ldap.delete_user"
                  /\ \E k \in (j + 1)..(i - 1) :
                       /\ calls[r][k].op = "ldap.delete_group"
                       /\ \E l \in (k + 1)..(i - 1) : calls[r][l] = Call("ldap.gc", "ok")
             /\ \A j \in (i + 1)..Len(calls[r]) : calls[r][j].op \notin LdapDeletions
             /\ calls[r][i - 1] = Call("flush", "ok")
             /\ Cardinality(CallsOf(r, "flush")) = 1
        /\ ( /\ calls[r][i].op = "homedir.delete"
             /\ ~TokenBearing(r, i)
             /\ calls[r][i].res # "again" )
           => /\ pc[r] = "done"
              /\ resp[r].code = 500
              /\ i = Len(calls[r])
              /\ \A j \in 1..Len(calls[r]) : calls[r][j].op \notin LdapDeletions
              /\ conn[r] = "none"

\* one request went through every step, its principal deleted and a
\* membership removed, and was answered 200; the other, begun before the
\* account was gone, had its token-less DELETE answered user_not_found
C29_Witness ==
  \E r, s \in Requests :
    /\ kind[r] = "deleteUser" /\ resp[r].code = 200
    /\ Did(r, "kadm.deletePrincipal", "ok")
    /\ Did(r, "ldap.modify", "ok")
    /\ kind[s] = "deleteUser" /\ pc[s] = "done"
    /\ Did(s, "homedir.delete", "user_not_found")
    /\ resp[s] = [code |-> 500, status |-> "mkhomedird_token"]

(***************************************************************************)
(* Claims about the Kerberos step of create-user.                          *)
(***************************************************************************)
\* C30: every failure of the Kerberos addPrincipal step in create-user
\* (non-zero kadmin exit as well as an unexpected prompt or output during
\* the password dialogue) is answered 500 with status kerberos_failed and
\* triggers the rollback of the LDAP entries: the handler raises
\* kerberos_failed, the compensations that delete the two entries run, and
\* that is the answer (stated here even under healthy collaborators).
C30_KerberosFailureAnswered ==
  \A r \in Requests :
    ( /\ kind[r] = "addUser"
      /\ \E i \in CallsOf(r, "kadm.addPrincipal") : calls[r][i].res # "ok" )
    =>
      /\ pc[r] \in {"unwind", "done"}
      /\ thrown[r] = ServerError("kerberos_failed")
      /\ (pc[r] = "done" /\ CollaboratorsUp(r)) =>
           /\ RanAt(r, "people.delete") > 0
           /\ RanAt(r, "group.delete") > 0
           /\ resp[r] = [code |-> 500, status |-> "kerberos_failed"]

(***************************************************************************)
(* Claims about the Kerberos step of delete-user.                          *)
(***************************************************************************)
\* the calls of delete-user to the homedir service and to the directory
HomedirOrLdap ==
  LdapDeletions \cup {"homedir.delete", "homedir.delete_group", "ldap.connect",
                      "ldap.search", "ldap.gc", "ldap.close"}

C32_ConnectionClosedAtReturn ==
  \A r \in Requests : pc[r] = "done" => conn[r] # "open"

(***************************************************************************)
(* Claims about the answers to a failing collaborator.                     *)
(***************************************************************************)
\* the calls by which request r found a collaborator unavailable: the
\* connect or an operation of the directory failed with an error other
\* than AlreadyExists and NoSuchObjectError, or the socket of the homedir
\* service was unreachable during the garbage collection
Unavailable(r) ==
  {i \in 1..Len(calls[r]) :
     \/ /\ calls[r][i].op \in LdapDeletions \cup {"ldap.connect", "ldap.search",
                                                  "ldap.gc", "ldap.add_user",
                                                  "ldap.add_group"}
        /\ calls[r][i].res = "error"
     \/ calls[r][i] = Call("homedir.delete_group", "ClientError")}

\* C33: when a collaborator is unavailable during a request, the client
\* receives a 500 whose status names the collaborator that failed, not the
\* generic status bug.
C33_UnavailableCollaboratorIsNamed ==
  \A r \in Requests :
    (pc[r] = "done" /\ Unavailable(r) # {}) =>
      /\ resp[r].code = 500
      /\ resp[r].status \notin {"bug", "none"}

(***************************************************************************)
(* Claims about the answer after a rollback.                               *)
(***************************************************************************)
\* C34: when a step of create-user or create-group fails with the error
\* kind K, the response sent to the client carries the status K, also when
\* one of the compensations raises during the unwind.
C34_AnswerCarriesKindOfFailedStep ==
  \A r \in Requests :
    ( /\ kind[r] \in {"addUser", "addGroup"}
      /\ pc[r] = "done"
      /\ thrown[r].type = "ServerError" )
    => resp[r] = [code |-> 500, status |-> thrown[r].status]

(***************************************************************************)
(* Claims about what a rollback deletes.                                   *)
(***************************************************************************)
\* the entries of the directory request r added: the account and the
\* primary group of create-user, the group of create-group
AddedPeople(r) ==
  IF kind[r] = "addUser" /\ Did(r, "ldap.add_user", "ok")
  THEN {Account(uid[r])} ELSE {}

AddedGroups(r) ==
  IF ~Did(r, "ldap.add_group", "ok") THEN {}
  ELSE IF kind[r] = "addUser" THEN {PrimaryGroup(uid[r])}
  ELSE {NewGroup(uid[r], user[r])}

\* request r ran one more compensation in this step
Compensates(r) == executed'[r] # executed[r]

\* the callables of the compensations request r has run
Ran(r) == {executed[r][i].fn : i \in 1..Len(executed[r])}

\* a request whose add was rejected as existing: of the account, nothing
\* was pushed; of the primary group, its deletion was never pushed
RejectedDeletesNothingElse ==
  \A r \in Requests :
    /\ Did(r, "ldap.add_user", "exists") => pushed[r] = <<>> /\ executed[r] = <<>>
    /\ (kind[r] = "addUser" /\ Did(r, "ldap.add_group", "exists")) =>
         /\ "group.delete" \notin Ran(r)
         /\ \A i \in 1..Len(executed[r]) :
              executed[r][i].fn = "people.delete" => executed[r][i].arg = Login(r)
    /\ (kind[r] = "addGroup" /\ Did(r, "ldap.add_group", "exists")) =>
         pushed[r] = <<>> /\ executed[r] = <<>>

\* C35: the rollback of a failed create-user or create-group deletes only
\* entries the same request added: a step in which a request runs a
\* compensation removes nothing from the directory but entries that request
\* added; a request whose add of the account was rejected as existing
\* deletes nothing, one whose add of the primary group was rejected deletes
\* its own account only, whoever the conflicting entry belongs to.
C35_RollbackDeletesOnlyOwnEntries ==
  /\ []RejectedDeletesNothingElse
  /\ [][ \A r \in Requests :
           Compensates(r) =>
             /\ (ldapPeople \ ldapPeople') \subseteq AddedPeople(r)
             /\ (ldapGroup \ ldapGroup') \subseteq AddedGroups(r) ]_vars

\* the add of the primary group of r was rejected (the group is a
\* leftover), the rollback deleted the account of r and left the group;
\* meanwhile the add of the account of s, of the same uid, was rejected
\* because the account of r was still there, and s deleted nothing
C35_Witness ==
  \E r, s \in Requests :
    /\ kind[r] = "addUser" /\ pc[r] = "done"
    /\ Did(r, "ldap.add_group", "exists")
    /\ \E i \in 1..Len(executed[r]) :
         executed[r][i].fn = "people.delete" /\ outcomes[r][i] = NoExc
    /\ Account(uid[r]) \notin ldapPeople
    /\ \E g \in ldapGroup : g.name = Login(r)
    /\ kind[s] = "addUser" /\ pc[s] = "done"
    /\ uid[s] = uid[r]
    /\ Did(s, "ldap.add_user", "exists")
    /\ executed[s] = <<>>

(***************************************************************************)
(* Claims about the creation of homes.                                     *)
(***************************************************************************)
\* the POST requests whose handler is suspended in copyDir
InFlight == {p \in Posts : post[p].pc = "copy"}

\* request p is answered in this step
Answered(p) == post[p].pc = "idle" /\ post'[p].pc # "idle"

\* no two creations for one user are in progress, and running holds the
\* users of the creations in flight and no one else
OneCreationPerUser ==
  /\ \A p, q \in InFlight : post[p].name = post[q].name => p = q
  /\ running = {post[p].name : p \in InFlight}

\* C36: in the homedir service at most one creation of a home for a given
\* user is in progress at any time: a POST for a user in the set running is
\* answered 202 in_progress without touching the file system or the set,
\* and the user is removed from the set on every exit path of the request
\* that added it, so the set is empty whenever no creation is in flight.
C36_OneHomeCreationPerUser ==
  /\ []OneCreationPerUser
  /\ [][ \A p \in Posts :
           Answered(p) =>
             IF post'[p].name \in running
             THEN /\ post'[p].resp = [code |-> 202, status |-> "in_progress"]
                  /\ post'[p].pc = "done"
                  /\ UNCHANGED <<dirs, running>>
             ELSE post'[p].resp.code # 202 ]_vars

\* while the skeleton of a user is copied for one request, another request
\* for the same user has been answered 202
C36_Witness ==
  \E p, q \in Posts :
    /\ post[p].pc = "copy"
    /\ running = {post[p].name}
    /\ <<"home", post[p].name>> \in dirs
    /\ post[q].pc = "done" /\ post[q].name = post[p].name
    /\ post[q].resp = [code |-> 202, status |-> "in_progress"]

(***************************************************************************)
(* Claims about the tokens of the homedir service.                         *)
(***************************************************************************)
\* the token tok was issued for name and has been used with the answer ok:
\* by the delete-user request, or by the last request of another client
UsedWithSuccess(name, tok) ==
  \/ /\ homed.name = name /\ homed.token = tok /\ homed.status = "ok"
  \/ \E r \in Requests :
       /\ kind[r] = "deleteUser" /\ Target(r) = name /\ token[r] = tok
       /\ Last(calls[r]) = Call("homedir.delete", "ok")

\* the token tok is within its lifetime and the user name does not resolve
StillGood(name, tok) ==
  /\ \E t \in deleteToken :
       t.token = tok /\ t.userdata.name = name /\ now - t.date <= TokenLifetime
  /\ getUserByName(passwd, name) = {}

\* C37: a token of the homedir service is never consumed or removed: the
\* map deleteToken only grows, a newly issued token never equals a token
\* already in the map, and a DELETE that repeats a token already used with
\* success, within the lifetime of the token and while the user still does
\* not resolve, is again answered ok.
C37_TokensAreNeverConsumed ==
  [][ /\ deleteToken \subseteq deleteToken'
      /\ \A t \in deleteToken' \ deleteToken :
           t.token \notin {u.token : u \in deleteToken}
      /\ ( /\ homed' # homed
           /\ homed'.token # NoToken
           /\ UsedWithSuccess(homed'.name, homed'.token)
           /\ StillGood(homed'.name, homed'.token) )
         => homed'.status = "ok" ]_vars

\* delete-user used its token with success; another client repeated the
\* DELETE with that token and was answered ok; the token is still in the
\* map, next to a second one issued later
C37_Witness ==
  \E r \in Requests :
    /\ kind[r] = "deleteUser" /\ resp[r] = [code |-> 200, status |-> "ok"]
    /\ homed.name = Target(r) /\ homed.token = token[r] /\ homed.status = "ok"
    /\ \E t \in deleteToken : t.token = token[r]
    /\ Cardinality(deleteToken) = 2

(***************************************************************************)
(* Claims about a failed step of the GSS context.                          *)
(***************************************************************************)
\* the answers on the connection of answer i that came after it
LaterOn(i) ==
  {j \in (i + 1)..Len(served) : served[j].conn = served[i].conn}

\* the first answer on the connection of answer i after it, given there is
\* one
NextOn(i) == CHOOSE j \in LaterOn(i) : \A k \in LaterOn(i) : j <= k

\* a request that follows a failed step on its connection meets an
\* incomplete context: it reaches the handler only by a step of its own
FreshAfterFailure ==
  \A i \in 1..Len(served) :
    (served[i].step = "GSSError" /\ LaterOn(i) # {}) =>
      (served[NextOn(i)].code # 401 => served[NextOn(i)].step = "ok")

\* C38: when the step of the GSS context of the connection with the token
\* of the client fails, the decorator replaces the context of the
\* connection by a fresh, incomplete one, does not call the handler, and
\* answers 401 with WWW-Authenticate: Negotiate without a token; a later
\* request on the same connection negotiates against the fresh context.
C38_FailedStepStartsAfresh ==
  /\ []FreshAfterFailure
  /\ [][ (Len(served') > Len(served) /\ Last(served').step = "GSSError") =>
           /\ gss'[Last(served').conn] = makeContext
           /\ ~gss'[Last(served').conn].complete
           /\ handled' = handled
           /\ Last(served').code = 401
           /\ Last(served').headers = <<"Negotiate">> ]_vars

\* on one connection the handler was reached, then a step failed and 401
\* was answered, then a request with a final token reached the handler
\* again
C38_Witness ==
  /\ Len(served) = 3
  /\ served[1].conn = served[2].conn /\ served[2].conn = served[3].conn
  /\ served[1].code = 200
  /\ served[2].step = "GSSError" /\ served[2].code = 401
  /\ served[3].step = "ok" /\ served[3].code = 200
  /\ Len(handled) = 2

(***************************************************************************)
(* Claims about the dialogue with kadmin.                                  *)
(***************************************************************************)
\* C39: whenever KAdm.addPrincipal is left by an error or by cancellation
\* in the middle of the password dialogue (an unexpected prompt, a failed
\* read), the stdin pipe of the kadmin process it spawned has been closed.
C39_StdinClosedWhenDialogueFails ==
  \A r \in Requests :
    (kadmin[r] # "none" /\ thrown[r].type \in {"AssertionError", "CancelledError"})
    => kadmin[r] = "closed"

(***************************************************************************)
(* Claims about the body of a create-user request.                         *)
(***************************************************************************)
\* the rule of the body: a preferred user name, or a first and a last name
NamesGiven(f) == "username" \in f \/ {"firstName", "lastName"} \subseteq f

\* request r is a create-user request of an authorized principal whose
\* body has no key UserInfo does not know
CreateWithBody(r) ==
  /\ kind[r] = "addUser"
  /\ mayCreate(user[r])
  /\ form[r] \subseteq UserInfoFields

\* C40: create-user rejects a body that carries neither a preferred user
\* name nor both a first and a last name, before any external side effect
\* (no uid reserved, no connection to the directory opened); a body that
\* satisfies the rule but omits other optional fields such as email is
\* accepted: the handler does not fail on the body.
C40_BodyNeedsNames ==
  \A r \in Requests :
    CreateWithBody(r) =>
      IF NamesGiven(form[r])
      THEN thrown[r].type # "TypeError"
      ELSE /\ pc[r] = "done"
           /\ resp[r].code >= 400
           /\ uid[r] = None
           /\ conn[r] = "none"
           /\ calls[r] = <<>>
=============================================================================
